---- MODULE Spec2Model ----
(***************************************************************************)
(* Model of the workflow engine of the analytics assistant: the            *)
(* orchestrator graph (run_parsing -> init_loop -> pick_next ->            *)
(* run_extractor -> run_render_chart -> accumulate), the nested parser,    *)
(* SQL-extractor and charting graphs with their bounded generate/validate  *)
(* retry loops, and the parse validation service.                          *)
(*                                                                         *)
(* A graph state (a Python dict) is a function from the keys that are set  *)
(* to their values.  DataQuestion objects are mutated in place by the      *)
(* nodes, so they live in a heap indexed by object identity and the graph  *)
(* states hold identities.                                                 *)
(***************************************************************************)
EXTENDS Integers, Sequences, FiniteSets, TLC

VARIABLES
    pc,          \* position of the top-level run (orchestrator node about to run)
    state,       \* AgenticOrchestratorState: key -> value
    heap,        \* DataQuestion objects, by identity
    spc,         \* position inside the nested graph being invoked
    sub,         \* state of the nested graph being invoked: key -> value
    gen_log,     \* calls of the generation capability in the current invocation
    val_log,     \* validations in the current invocation
    exec_log,    \* SQL texts handed to the query executor in the current invocation
    stage_log,   \* orchestrator nodes that have completed, in order
    q_log,       \* per finished SQL / chart invocation: its is_valid and df
    vin,         \* validate_agent_output: the AgentOutput under validation
    vout,        \* validate_agent_output: the (is_valid, message) returned
    ui,          \* what the run shows and logs: status box, page elements, log events
    rep,         \* repeated invocation of a nested graph: what the first one returned
    svc,         \* a call of the SQL services / the sql.* tools: arguments, settings, answer
    parse_log    \* calls of the parse capability and of the parse validator, in order

vars == <<pc, state, heap, spc, sub, gen_log, val_log, exec_log, stage_log, q_log, vin, vout, ui, rep, svc, parse_log>>

----------------------------------------------------------------------------
(* Bounds *)

MaxQuestions == 2      \* work items in one parser answer (orchestrator runs)
MaxItems == 2          \* work items in one AgentOutput (validation runs)
MaxNames == 1          \* metric / dimension names per item (validation runs)
MaxWords == 2          \* words in one SQL statement (service and tool calls)
MaxRows == 3           \* largest configured maximum row count (tool calls)
MaxLines == 2          \* request lines received on one connection (tool server)
MaxAliases == 2        \* entries of the alias registry (canonicalization)
MaxClients == 2        \* client connections served at the same time (tool server)

----------------------------------------------------------------------------
(* Python values *)

None == "None"                         \* the None object, where a string is expected
NoneV == [t |-> "NoneType", v |-> ""]  \* the None object, where the type varies
DictV(x) == [t |-> "dict", v |-> x]
StrV(x) == [t |-> "str", v |-> x]

Get(s, k, default) == IF k \in DOMAIN s THEN s[k] ELSE default

Put(s, k, val) == [x \in (DOMAIN s) \cup {k} |-> IF x = k THEN val ELSE s[x]]

Merge(s, u) == [x \in (DOMAIN s) \cup (DOMAIN u) |-> IF x \in DOMAIN u THEN u[x] ELSE s[x]]

EmptyState == [x \in {} |-> None]

Range(s) == {s[i] : i \in DOMAIN s}

BSeq(S, n) == UNION {[1..k -> S] : k \in 0..n}

----------------------------------------------------------------------------
(* models/user_request_parser_model.py *)

DataQuestion(text, metrics, dimensions, hint) ==
    [kind |-> "data", original_text |-> text, metrics |-> metrics,
     dimensions |-> dimensions, chart_hint |-> hint, dataset |-> None,
     chart_figure_json |-> NoneV, narrative |-> None]

TextOf(i) == <<"q1", "q2", "q3", "q4">>[i]

----------------------------------------------------------------------------
(* config/ag_user_query_parser_config/metrics.yaml, as loaded by the
   parsing and parsing-validation services *)

Registry ==
    [metrics |-> {"revenue"},
     dimensions |-> {"product"},
     aliases |-> << [canon |-> "revenue", syns |-> {"sales"}],
                    [canon |-> "product", syns |-> {"item"}] >>]

Lower(w) == IF w = "Product" THEN "product" ELSE IF w = "DELETE" THEN "delete" ELSE w

----------------------------------------------------------------------------
(* tools/user_parser_tools.py *)

alias_to_canonical(word, registry) ==
    LET aliases == registry.aliases
        known == \E m \in registry.metrics \cup registry.dimensions : Lower(word) = Lower(m)
        \* the for loop: entry i returns the canonical key on a match, returns
        \* the word unchanged when it is a registered name, else goes on
        Loop[i \in 1..(Len(aliases) + 1)] ==
            IF i > Len(aliases) THEN word
            ELSE IF \/ Lower(word) = Lower(aliases[i].canon)
                    \/ \E sy \in aliases[i].syns : Lower(word) = Lower(sy)
                 THEN aliases[i].canon
            ELSE IF known THEN word
            ELSE Loop[i + 1]
    IN Loop[1]

----------------------------------------------------------------------------
(* services/parsing_service.py *)

_post_process(q) ==
    [q EXCEPT !.metrics = [i \in DOMAIN q.metrics |-> alias_to_canonical(q.metrics[i], Registry)],
              !.dimensions = [i \in DOMAIN q.dimensions |-> alias_to_canonical(q.dimensions[i], Registry)]]

----------------------------------------------------------------------------
(* services/parsing_validation_service.py *)

\* One line of the message returned by validate_agent_output (the lines are
\* joined with "\n").  kind names the sentence; fields, metrics, dims and text
\* are the values formatted into it.
MessageLine(kind, fields, metrics, dims, text) ==
    [kind |-> kind, fields |-> fields, metrics |-> metrics, dims |-> dims, text |-> text]

\* variant: metrics and dimensions are looked up in one merged set of names
NotIn_merged(xs, registered) ==
    SelectSeq(xs, LAMBDA x : x \notin Registry.metrics \cup Registry.dimensions)

\* list comprehension [x for x in xs if x not in registered]
NotIn(xs, registered) == SelectSeq(xs, LAMBDA x : x \notin registered)

\* variant: if / elif, so at most one field is reported
MissingOf_elif(q) ==
    IF q.metrics = <<>> THEN <<"metric">>
    ELSE IF q.dimensions = <<>> THEN <<"dimension">>
    ELSE <<>>

\* the "missing" list built for one item
MissingOf(q) ==
    (IF q.metrics = <<>> THEN <<"metric">> ELSE <<>>)
    \o (IF q.dimensions = <<>> THEN <<"dimension">> ELSE <<>>)

\* variant: an answer without a data question is not rejected
validate_agent_output_any(questions) ==
    LET has_data_question == \E i \in DOMAIN questions : questions[i].kind = "data"
        missing_fields[i \in 0..Len(questions)] ==
            IF i = 0 THEN <<>>
            ELSE LET q == questions[i] IN
                 IF q.kind = "data" /\ (q.metrics = <<>> \/ q.dimensions = <<>>)
                 THEN Append(missing_fields[i - 1],
                             MessageLine("missing", MissingOf(q), <<>>, <<>>, q.original_text))
                 ELSE missing_fields[i - 1]
        invalid_items[i \in 0..Len(questions)] ==
            IF i = 0 THEN <<>>
            ELSE LET q == questions[i]
                     invalid_metrics == NotIn(q.metrics, Registry.metrics)
                     invalid_dims == NotIn(q.dimensions, Registry.dimensions)
                 IN IF q.kind = "data" /\ (invalid_metrics # <<>> \/ invalid_dims # <<>>)
                    THEN Append(invalid_items[i - 1],
                                MessageLine("unknown", <<>>, invalid_metrics, invalid_dims, q.original_text))
                    ELSE invalid_items[i - 1]
    IN IF FALSE /\ ~has_data_question
       THEN [ok |-> FALSE, message |-> <<MessageLine("no_data_question", <<>>, <<>>, <<>>, "")>>]
       ELSE IF missing_fields[Len(questions)] # <<>>
       THEN [ok |-> FALSE, message |-> missing_fields[Len(questions)]]
       ELSE IF invalid_items[Len(questions)] # <<>>
       THEN [ok |-> FALSE, message |-> invalid_items[Len(questions)]]
       ELSE [ok |-> TRUE, message |-> <<MessageLine("valid", <<>>, <<>>, <<>>, "")>>]

validate_agent_output(questions) ==
    LET has_data_question == \E i \in DOMAIN questions : questions[i].kind = "data"
        missing_fields[i \in 0..Len(questions)] ==
            IF i = 0 THEN <<>>
            ELSE LET q == questions[i] IN
                 IF q.kind = "data" /\ (q.metrics = <<>> \/ q.dimensions = <<>>)
                 THEN Append(missing_fields[i - 1],
                             MessageLine("missing", MissingOf(q), <<>>, <<>>, q.original_text))
                 ELSE missing_fields[i - 1]
        invalid_items[i \in 0..Len(questions)] ==
            IF i = 0 THEN <<>>
            ELSE LET q == questions[i]
                     invalid_metrics == NotIn(q.metrics, Registry.metrics)
                     invalid_dims == NotIn(q.dimensions, Registry.dimensions)
                 IN IF q.kind = "data" /\ (invalid_metrics # <<>> \/ invalid_dims # <<>>)
                    THEN Append(invalid_items[i - 1],
                                MessageLine("unknown", <<>>, invalid_metrics, invalid_dims, q.original_text))
                    ELSE invalid_items[i - 1]
    IN IF ~has_data_question
       THEN [ok |-> FALSE, message |-> <<MessageLine("no_data_question", <<>>, <<>>, <<>>, "")>>]
       ELSE IF missing_fields[Len(questions)] # <<>>
       THEN [ok |-> FALSE, message |-> missing_fields[Len(questions)]]
       ELSE IF invalid_items[Len(questions)] # <<>>
       THEN [ok |-> FALSE, message |-> invalid_items[Len(questions)]]
       ELSE [ok |-> TRUE, message |-> <<MessageLine("valid", <<>>, <<>>, <<>>, "")>>]

----------------------------------------------------------------------------
(* Validation runs: validate_agent_output applied to every AgentOutput of
   bounded size over the names below. *)

ValNames == {"revenue", "product"}

NoResult == [ok |-> FALSE, message |-> <<>>]

\* the metrics and dimensions an item of the AgentOutput can have
ValShapes == [metrics : BSeq(ValNames, MaxNames), dimensions : BSeq(ValNames, MaxNames)]

\* the AgentOutput made of items of the given shapes, in order
ValItems(shapes) ==
    [i \in DOMAIN shapes |-> DataQuestion(TextOf(i), shapes[i].metrics, shapes[i].dimensions, TRUE)]

\* no service or tool call is under way
NoCall == [op |-> "none"]

\* no nested graph invocation has been recorded
NoRun == [runs |-> 0, sub |-> EmptyState, gen_log |-> <<>>, val_log |-> <<>>]

Idle ==
    /\ state = EmptyState /\ heap = <<>> /\ spc = "none" /\ sub = EmptyState
    /\ gen_log = <<>> /\ val_log = <<>> /\ exec_log = <<>>
    /\ stage_log = <<>> /\ q_log = <<>>
    /\ ui = [status_box |-> <<>>, out |-> <<>>, log |-> <<>>]
    /\ rep = NoRun
    /\ parse_log = <<>>

ValInit ==
    /\ pc = "validate"
    /\ svc = NoCall
    /\ \E n \in 0..MaxItems : \E shapes \in [1..n -> ValShapes] : vin = ValItems(shapes)
    /\ vout = NoResult
    /\ Idle

Validate ==
    /\ pc = "validate"
    /\ vout' = validate_agent_output(vin)
    /\ pc' = "validated"
    /\ UNCHANGED <<state, heap, spc, sub, gen_log, val_log, exec_log, stage_log, q_log, vin, ui, rep, svc, parse_log>>

ValNext == Validate

ValSpec == ValInit /\ [][ValNext]_vars

(* canonicalization runs: tools/user_parser_tools.py on its own *)

\* the entries an alias registry is made of, the registries (a dict keeps
\* the order in which its keys were written) and the words to canonicalize
AliasEntries ==
    {[canon |-> "revenue", syns |-> {"sales"}],
     [canon |-> "product", syns |-> {"item"}],
     [canon |-> "units", syns |-> {"qty"}]}

AliasRegistries ==
    [metrics : SUBSET {"revenue"},
     dimensions : SUBSET {"product"},
     aliases : {a \in BSeq(AliasEntries, MaxAliases) :
                   \A i, j \in DOMAIN a : i # j => a[i].canon # a[j].canon}]

AliasWords == {"revenue", "sales", "product", "Product", "item", "units", "qty", "other"}

AliasInit ==
    /\ pc = "canonicalize"
    /\ svc \in [op : {"alias"}, word : AliasWords, registry : AliasRegistries,
                 once : {None}, twice : {None}]
    /\ vin = <<>> /\ vout = NoResult
    /\ Idle

\* alias_to_canonical.invoke({"word": m, "registry": self.registry})
canonicalize ==
    /\ pc = "canonicalize"
    /\ svc' = [svc EXCEPT !.once = alias_to_canonical(svc.word, svc.registry)]
    /\ pc' = "canonicalized"
    /\ UNCHANGED <<state, heap, spc, sub, gen_log, val_log, exec_log, stage_log, q_log, vin, vout, ui, rep, parse_log>>

\* the result is canonicalized again (a second parse of an item that kept
\* its canonicalized names)
canonicalize_again ==
    /\ pc = "canonicalized"
    /\ svc' = [svc EXCEPT !.twice = alias_to_canonical(svc.once, svc.registry)]
    /\ pc' = "canonicalized_twice"
    /\ UNCHANGED <<state, heap, spc, sub, gen_log, val_log, exec_log, stage_log, q_log, vin, vout, ui, rep, parse_log>>

AliasNext ==
    \/ canonicalize
    \/ canonicalize_again

AliasSpec == AliasInit /\ [][AliasNext]_vars

----------------------------------------------------------------------------
(* Capabilities outside the workflow engine: what they can answer *)

\* what the parser LLM can put in the metrics / dimensions of one item
RawMetricLists == {<<>>, <<"revenue">>, <<"sales">>, <<"bogus">>}
RawDimensionLists == {<<>>, <<"product">>, <<"item">>, <<"Product">>}

\* what the parser LLM can answer for one item; chart_hint is optional
RawShapes == [metrics : RawMetricLists, dimensions : RawDimensionLists, chart_hint : BOOLEAN]

\* the items of the answer made of the given shapes, in order
ParserItems(shapes) ==
    [i \in DOMAIN shapes |->
        DataQuestion(TextOf(i), shapes[i].metrics, shapes[i].dimensions, shapes[i].chart_hint)]

\* SQL texts the generation capability can return, and what the validator
\* (sql.validate / asyncpg prepare) answers for each
SqlTexts == {"sql_ok", "sql_bad1", "sql_bad2"}

SqlError(sql) == IF sql = "sql_bad1" THEN "e1" ELSE "e2"

\* outcomes of DataExtractionService.run_query
QueryOutcomes == {"df_rows", "df_empty", "raise"}

\* answers of the chart generation capability: text that is not JSON, or a
\* JSON object whose plotly_figure and narrative keys may be absent
Figures == {"fig_valid", "fig_no_traces", "fig_bad_property"}
Narratives == {"n1", "n2"}

ChartResponses ==
    {[json |-> FALSE, plotly_figure |-> "absent", narrative |-> "absent"]}
    \cup [json : {TRUE}, plotly_figure : Figures \cup {"absent"}, narrative : Narratives \cup {"absent"}]

----------------------------------------------------------------------------
(* Progress messages *)

\* variant: the two numbers are formatted in the wrong places
Msg_swapped(text, i, n) == [text |-> text, i |-> n, n |-> i]

\* a progress message: the sentence and the numbers formatted into it
\* (0 where the sentence has no such number)
Msg(text, i, n) == [text |-> text, i |-> i, n |-> n]

----------------------------------------------------------------------------
(* ada_streamlit.py: the page and the log of one run *)

\* one element written to the page (st.info, st.warning, st.subheader,
\* st.plotly_chart, st.write, st.error); i is the question it belongs to
Element(kind, i, text, lines) == [kind |-> kind, i |-> i, text |-> text, lines |-> lines]

\* one structured log record
LogEvent(event, status, i, n) == [event |-> event, status |-> status, i |-> i, n |-> n]

\* the body of the loop over app.stream(...): each streamed state refreshes
\* the status box with all progress messages and logs the last one
Stream(u, st) ==
    LET progress_messages == Get(st, "progress_messages", <<>>)
        last_msg == progress_messages[Len(progress_messages)]
    IN IF progress_messages = <<>> THEN u
       ELSE [u EXCEPT !.status_box = progress_messages,
                      !.log = Append(@, LogEvent("progress", last_msg.text, last_msg.i, last_msg.n))]

----------------------------------------------------------------------------
(* The run: ada_streamlit.py builds the initial state and streams the graph;
   the first streamed value is the initial state itself *)

Init ==
    /\ pc = "run_parsing"
    /\ state = [user_query |-> "user_query", semantic |-> "semantic",
                progress_messages |-> <<Msg("Start processing user query...", 0, 0)>>]
    /\ heap = <<>>
    /\ spc = "none"
    /\ sub = EmptyState
    /\ gen_log = <<>>
    /\ val_log = <<>>
    /\ exec_log = <<>>
    /\ stage_log = <<>>
    /\ q_log = <<>>
    /\ vin = <<>>
    /\ vout = NoResult
    /\ ui = Stream([status_box |-> <<>>, out |-> <<>>,
                    log |-> <<LogEvent("run_started", "user_query", 0, 0)>>], state)
    /\ rep = NoRun
    /\ svc = NoCall
    /\ parse_log = <<>>

\* an exception leaves the nested graph and the orchestrator graph and is
\* caught by the except clause of the run
Raise(what) ==
    /\ pc' = "failed"
    /\ spc' = what

----------------------------------------------------------------------------
(* graphs/parser_graph.py, nodes/run_parsing_node.py *)

run_parsing_invoke ==
    /\ pc = "run_parsing" /\ spc = "none"
    /\ sub' = [user_query |-> Get(state, "user_query", "")]
    /\ spc' = "parse"
    /\ gen_log' = <<>> /\ val_log' = <<>> /\ exec_log' = <<>>
    /\ UNCHANGED <<pc, state, heap, stage_log, q_log, vin, vout, ui, rep, svc, parse_log>>

parse_node ==
    /\ pc = "run_parsing" /\ spc = "parse"
    /\ \E n \in 0..MaxQuestions : \E shapes \in [1..n -> RawShapes] :
          LET raw == ParserItems(shapes)
          IN /\ heap' = [i \in DOMAIN raw |-> _post_process(raw[i])]
             /\ sub' = Put(sub, "parsed", [i \in DOMAIN raw |-> i])
    /\ spc' = "parser_validation"
    /\ parse_log' = Append(parse_log, "parse")
    /\ UNCHANGED <<pc, state, gen_log, val_log, exec_log, stage_log, q_log, vin, vout, ui, rep, svc>>

\* variant: an invalid result is sent back to the parse node
after_parser_validation_retry(st) == IF Get(st, "is_valid", FALSE) THEN "END" ELSE "parse"

\* the edge parser_validation -> END
after_parser_validation(st) == "END"

parser_validation_node ==
    /\ pc = "run_parsing" /\ spc = "parser_validation"
    /\ LET parsed == sub["parsed"]
           r == validate_agent_output([i \in DOMAIN parsed |-> heap[parsed[i]]])
       IN sub' = Merge(sub, [is_valid |-> r.ok, validation_message |-> r.message])
    /\ spc' = after_parser_validation(sub')
    /\ parse_log' = Append(parse_log, "validate_agent_output")
    /\ UNCHANGED <<pc, state, heap, gen_log, val_log, exec_log, stage_log, q_log, vin, vout, ui, rep, svc>>

\* variant: the loop is entered whatever the validation said
after_parsing_always(st) == "init_loop"

\* the conditional edge after run_parsing (graphs/orchestrator_graph.py)
after_parsing(st) == IF Get(st, "is_valid", FALSE) THEN "init_loop" ELSE "done"

run_parsing_node ==
    /\ pc = "run_parsing" /\ spc = "END"
    /\ LET parser_result == sub
           progress == Append(Get(state, "progress_messages", <<>>), Msg("Parsing completed.", 0, 0))
           new_state == Merge(Merge(state, parser_result), [progress_messages |-> progress])
       IN /\ state' = new_state
          /\ pc' = after_parsing(new_state)
          /\ ui' = Stream(ui, new_state)
    /\ spc' = "none"
    /\ sub' = EmptyState
    /\ stage_log' = Append(stage_log, "run_parsing")
    /\ UNCHANGED <<heap, gen_log, val_log, exec_log, q_log, vin, vout, rep, svc, parse_log>>

----------------------------------------------------------------------------
(* nodes/init_loop_node.py, nodes/pick_next_question_node.py,
   nodes/accumulate_and_advance_node.py, graphs/orchestrator_graph.py *)

\* variant: only the questions that carry a chart hint are queued
init_loop_node_hinted ==
    /\ pc = "init_loop"
    /\ LET parsed == state["parsed"]
           dqs == SelectSeq(parsed, LAMBDA q : heap[q].kind = "data" /\ heap[q].chart_hint)
           ars == SelectSeq(parsed, LAMBDA q : heap[q].kind = "analysis")
       IN state' = Merge(state, [questions |-> dqs, analysis_requests |-> ars,
                                 current_idx |-> 0, processed_questions |-> <<>>])
    /\ ui' = Stream(ui, state')
    /\ pc' = "pick_next"
    /\ stage_log' = Append(stage_log, "init_loop")
    /\ UNCHANGED <<heap, spc, sub, gen_log, val_log, exec_log, q_log, vin, vout, rep, svc, parse_log>>

init_loop_node ==
    /\ pc = "init_loop"
    /\ LET parsed == state["parsed"]
           dqs == SelectSeq(parsed, LAMBDA q : heap[q].kind = "data")
           ars == SelectSeq(parsed, LAMBDA q : heap[q].kind = "analysis")
       IN state' = Merge(state, [questions |-> dqs, analysis_requests |-> ars,
                                 current_idx |-> 0, processed_questions |-> <<>>])
    /\ ui' = Stream(ui, state')
    /\ pc' = "pick_next"
    /\ stage_log' = Append(stage_log, "init_loop")
    /\ UNCHANGED <<heap, spc, sub, gen_log, val_log, exec_log, q_log, vin, vout, rep, svc, parse_log>>

\* variant: the cursor is advanced when the question is picked
pick_next_question_node_advance ==
    /\ pc = "pick_next"
    /\ LET i == state["current_idx"]
           n == Len(state["questions"])
       IN IF i >= n
          THEN Raise("IndexError") /\ UNCHANGED <<state, stage_log, ui>>
          ELSE /\ state' = Merge(state,
                      [data_question |-> state["questions"][i + 1],
                       current_idx |-> i + 1,
                       progress_messages |->
                           Get(state, "progress_messages", <<>>)
                           \o <<Msg("Processing question", i + 1, n),
                                Msg("Extracting data for question", i + 1, n)>>])
               /\ ui' = Stream(ui, state')
               /\ pc' = "run_extractor"
               /\ stage_log' = Append(stage_log, "pick_next")
               /\ UNCHANGED spc
    /\ UNCHANGED <<heap, sub, gen_log, val_log, exec_log, q_log, vin, vout, rep, svc, parse_log>>

pick_next_question_node ==
    /\ pc = "pick_next"
    /\ LET i == state["current_idx"]
           n == Len(state["questions"])
       IN IF i >= n
          THEN Raise("IndexError") /\ UNCHANGED <<state, stage_log, ui>>
          ELSE /\ state' = Merge(state,
                      [data_question |-> state["questions"][i + 1],
                       progress_messages |->
                           Get(state, "progress_messages", <<>>)
                           \o <<Msg("Processing question", i + 1, n),
                                Msg("Extracting data for question", i + 1, n)>>])
               /\ ui' = Stream(ui, state')
               /\ pc' = "run_extractor"
               /\ stage_log' = Append(stage_log, "pick_next")
               /\ UNCHANGED spc
    /\ UNCHANGED <<heap, sub, gen_log, val_log, exec_log, q_log, vin, vout, rep, svc, parse_log>>

\* variant: the loop stops at a question that produced no rows
has_more_until_empty(st) ==
    IF heap[st["data_question"]].dataset = "[]" THEN "done"
    ELSE IF st["current_idx"] < Len(st["questions"]) THEN "pick_next" ELSE "done"

has_more(st) == IF st["current_idx"] < Len(st["questions"]) THEN "pick_next" ELSE "done"

\* variant: the processed question is put in front of the accumulator
accumulate_and_advance_node_front ==
    /\ pc = "accumulate"
    /\ LET processed == <<state["data_question"]>> \o Get(state, "processed_questions", <<>>)
           next_idx == state["current_idx"] + 1
           new_state == Merge(state, [processed_questions |-> processed, current_idx |-> next_idx])
       IN /\ state' = new_state
          /\ pc' = has_more(new_state)
          /\ ui' = Stream(ui, new_state)
    /\ stage_log' = Append(stage_log, "accumulate")
    /\ UNCHANGED <<heap, spc, sub, gen_log, val_log, exec_log, q_log, vin, vout, rep, svc, parse_log>>

accumulate_and_advance_node ==
    /\ pc = "accumulate"
    /\ LET processed == Append(Get(state, "processed_questions", <<>>), state["data_question"])
           next_idx == state["current_idx"] + 1
           new_state == Merge(state, [processed_questions |-> processed, current_idx |-> next_idx])
       IN /\ state' = new_state
          /\ pc' = has_more(new_state)
          /\ ui' = Stream(ui, new_state)
    /\ stage_log' = Append(stage_log, "accumulate")
    /\ UNCHANGED <<heap, spc, sub, gen_log, val_log, exec_log, q_log, vin, vout, rep, svc, parse_log>>

----------------------------------------------------------------------------
(* graphs/data_extractor_graph.py and its nodes *)

MaxAttempts == 3

\* SQLValidationService.validate: (is_valid, error)
SQLValidate(sql) ==
    IF sql = "sql_ok"
    THEN [is_valid |-> TRUE, error |-> NoneV]
    ELSE [is_valid |-> FALSE, error |-> DictV(SqlError(sql))]

\* variant: the bound is compared with > instead of >=
is_valid_sql_gt(st) ==
    IF Get(st, "is_valid", FALSE) THEN "extract_data_node"
    ELSE IF Get(st, "validation_attempts", 0) > MaxAttempts THEN "END"
    ELSE "generate_sql_node"

\* variant: exhausted retries fall through to the extraction node
is_valid_sql_extract(st) ==
    IF Get(st, "is_valid", FALSE) THEN "extract_data_node"
    ELSE IF Get(st, "validation_attempts", 0) >= MaxAttempts THEN "extract_data_node"
    ELSE "generate_sql_node"

\* the conditional edge after validate_sql_node
is_valid_sql(st) ==
    IF Get(st, "is_valid", FALSE) THEN "extract_data_node"
    ELSE IF Get(st, "validation_attempts", 0) >= MaxAttempts THEN "END"
    ELSE "generate_sql_node"

\* variant: the error is looked up under a key the validate node never sets
PreviousSqlError_lost(st) ==
    IF Get(st, "error", NoneV).t = "dict" THEN st["error"].v ELSE None

\* previous_validation_error handed to generate_sql
PreviousSqlError(st) ==
    IF Get(st, "validation_error", NoneV).t = "dict"
    THEN st["validation_error"].v
    ELSE None

run_extractor_invoke ==
    /\ pc = "run_extractor" /\ spc = "none"
    /\ sub' = [semantic |-> state["semantic"], data_question |-> state["data_question"]]
    /\ spc' = "generate_sql_node"
    /\ gen_log' = <<>> /\ val_log' = <<>> /\ exec_log' = <<>>
    /\ UNCHANGED <<pc, state, heap, stage_log, q_log, vin, vout, ui, rep, svc, parse_log>>

\* variant: the attempt is counted when the SQL is generated
sql_generate_node_counting ==
    /\ pc = "run_extractor" /\ spc = "generate_sql_node"
    /\ \E sql \in SqlTexts :
          /\ gen_log' = Append(gen_log, [previous_error |-> PreviousSqlError(sub), out |-> sql,
                                        narrative |-> None, dataset |-> None])
          /\ sub' = Merge(sub, [sql |-> sql,
                                validation_attempts |-> Get(sub, "validation_attempts", 0) + 1])
    /\ spc' = "validate_sql_node"
    /\ UNCHANGED <<pc, state, heap, val_log, exec_log, stage_log, q_log, vin, vout, ui, rep, svc, parse_log>>

sql_generate_node ==
    /\ pc = "run_extractor" /\ spc = "generate_sql_node"
    /\ \E sql \in SqlTexts :
          /\ gen_log' = Append(gen_log, [previous_error |-> PreviousSqlError(sub), out |-> sql,
                                        narrative |-> None, dataset |-> None])
          /\ sub' = Put(sub, "sql", sql)
    /\ spc' = "validate_sql_node"
    /\ UNCHANGED <<pc, state, heap, val_log, exec_log, stage_log, q_log, vin, vout, ui, rep, svc, parse_log>>

\* variant: the attempts are counted on the validator service, which the
\* invocations share, and every validation counts
sql_validate_node_shared ==
    /\ pc = "run_extractor" /\ spc = "validate_sql_node"
    /\ LET r == SQLValidate(sub["sql"])
           counted == Put(sub, "validation_attempts", Len(rep.val_log) + Len(val_log) + 1)
           new_sub == Merge(counted, [is_valid |-> r.is_valid, validation_error |-> r.error])
       IN /\ sub' = new_sub
          /\ spc' = is_valid_sql(new_sub)
          /\ val_log' = Append(val_log, [is_valid |-> r.is_valid,
                                         error |-> IF r.is_valid THEN None ELSE r.error.v])
    /\ UNCHANGED <<pc, state, heap, gen_log, exec_log, stage_log, q_log, vin, vout, ui, rep, svc, parse_log>>

sql_validate_node ==
    /\ pc = "run_extractor" /\ spc = "validate_sql_node"
    /\ LET r == SQLValidate(sub["sql"])
           counted == IF r.is_valid THEN sub
                      ELSE Put(sub, "validation_attempts", Get(sub, "validation_attempts", 0) + 1)
           new_sub == Merge(counted, [is_valid |-> r.is_valid, validation_error |-> r.error])
       IN /\ sub' = new_sub
          /\ spc' = is_valid_sql(new_sub)
          /\ val_log' = Append(val_log, [is_valid |-> r.is_valid,
                                         error |-> IF r.is_valid THEN None ELSE r.error.v])
    /\ UNCHANGED <<pc, state, heap, gen_log, exec_log, stage_log, q_log, vin, vout, ui, rep, svc, parse_log>>

sql_extract_node ==
    /\ pc = "run_extractor" /\ spc = "extract_data_node"
    /\ exec_log' = Append(exec_log, sub["sql"])
    /\ \E outcome \in QueryOutcomes :
          IF outcome = "raise"
          THEN Raise("RuntimeError") /\ UNCHANGED sub
          ELSE sub' = Put(sub, "df", outcome) /\ spc' = "END" /\ UNCHANGED pc
    /\ UNCHANGED <<state, heap, gen_log, val_log, stage_log, q_log, vin, vout, ui, rep, svc, parse_log>>

\* variant: a missing frame is serialized like a frame with rows
dq_dataset_to_str_rows(df) ==
    IF df = "df_empty" THEN "[]" ELSE "json_rows"

\* pandas: None or an empty frame gives "[]", else the records as JSON
dq_dataset_to_str(df) ==
    IF df = None \/ df = "df_empty" THEN "[]" ELSE "json_rows"

\* variant: the conditional edge a graph would need to skip the chart graph
\* for a question without a frame
after_extractor_skip(st) == IF Get(st, "df", None) = None THEN "accumulate" ELSE "run_render_chart"

\* the edge run_extractor -> run_render_chart (graphs/orchestrator_graph.py)
after_extractor(st) == "run_render_chart"

\* variant: the output of the nested graph is merged into the orchestrator state
run_extractor_node_merge ==
    /\ pc = "run_extractor" /\ spc = "END"
    /\ LET dq == state["data_question"]
           out == sub
           df == Get(out, "df", None)
           idx == state["current_idx"] + 1
           progress == Get(state, "progress_messages", <<>>)
                       \o <<Msg("Data Extraction completed for question", idx, 0),
                            Msg("Rendering chart for question", idx, 0)>>
       IN /\ heap' = [heap EXCEPT ![dq].dataset = dq_dataset_to_str(df)]
          /\ state' = Merge(Merge(state, out),
                            [df |-> df, data_question |-> dq, progress_messages |-> progress])
          /\ q_log' = Append(q_log, [graph |-> "sql", dq |-> dq,
                                     is_valid |-> Get(out, "is_valid", FALSE), df |-> df])
    /\ ui' = Stream(ui, state')
    /\ pc' = after_extractor(state')
    /\ spc' = "none"
    /\ sub' = EmptyState
    /\ stage_log' = Append(stage_log, "run_extractor")
    /\ UNCHANGED <<gen_log, val_log, exec_log, vin, vout, rep, svc, parse_log>>

run_extractor_node ==
    /\ pc = "run_extractor" /\ spc = "END"
    /\ LET dq == state["data_question"]
           out == sub
           df == Get(out, "df", None)
           idx == state["current_idx"] + 1
           progress == Get(state, "progress_messages", <<>>)
                       \o <<Msg("Data Extraction completed for question", idx, 0),
                            Msg("Rendering chart for question", idx, 0)>>
       IN /\ heap' = [heap EXCEPT ![dq].dataset = dq_dataset_to_str(df)]
          /\ state' = Merge(state, [df |-> df, data_question |-> dq, progress_messages |-> progress])
          /\ q_log' = Append(q_log, [graph |-> "sql", dq |-> dq,
                                     is_valid |-> Get(out, "is_valid", FALSE), df |-> df])
    /\ ui' = Stream(ui, state')
    /\ pc' = after_extractor(state')
    /\ spc' = "none"
    /\ sub' = EmptyState
    /\ stage_log' = Append(stage_log, "run_extractor")
    /\ UNCHANGED <<gen_log, val_log, exec_log, vin, vout, rep, svc, parse_log>>

----------------------------------------------------------------------------
(* graphs/charting_graph.py and its nodes *)

\* tools/chart_validation_tools.py through ChartingServiceLLM.validate_chart:
\* None when the figure is accepted, else the text of the ValueError
ChartError(fig) ==
    IF fig = "fig_valid" THEN None
    ELSE IF fig = "fig_no_traces" THEN "Invalid Plotly figure JSON: Plotly figure has no data traces."
    ELSE "Invalid Plotly figure JSON: bad property"

\* variant: the chart graph gives up one failed validation early
is_valid_chart_two(st) ==
    IF Get(st, "is_valid", FALSE) THEN "END"
    ELSE IF Get(st, "validation_attempts", 0) >= MaxAttempts - 1 THEN "END"
    ELSE "render_charts"

is_valid_chart(st) ==
    IF Get(st, "is_valid", FALSE) THEN "END"
    ELSE IF Get(st, "validation_attempts", 0) >= MaxAttempts THEN "END"
    ELSE "render_charts"

json_dumps(val) == IF val.t = "dict" THEN StrV(val.v) ELSE val

\* variant: the chart is attached whatever the validator said
AttachChart_always(dq, fig_json, is_valid, narrative) ==
    [dq EXCEPT !.chart_figure_json = fig_json, !.narrative = narrative]

\* variant: the narrative is attached only together with a valid chart
AttachChart_gated(dq, fig_json, is_valid, narrative) ==
    [dq EXCEPT !.chart_figure_json = IF is_valid THEN fig_json ELSE NoneV,
               !.narrative = IF is_valid THEN narrative ELSE None]

\* the try block of run_render_chart_node: the chart is attached to the
\* question only when valid, the narrative always
AttachChart(dq, fig_json, is_valid, narrative) ==
    [dq EXCEPT !.chart_figure_json = IF is_valid THEN fig_json ELSE NoneV,
               !.narrative = narrative]

\* ChartingServiceLLM.build_prompt: the data set put in the prompt
build_prompt_dataset(dq) == IF dq.dataset # None /\ dq.dataset # "" THEN dq.dataset ELSE "[]"

run_render_chart_invoke ==
    /\ pc = "run_render_chart" /\ spc = "none"
    /\ sub' = [data_question |-> state["data_question"]]
    /\ spc' = "render_charts"
    /\ gen_log' = <<>> /\ val_log' = <<>> /\ exec_log' = <<>>
    /\ UNCHANGED <<pc, state, heap, stage_log, q_log, vin, vout, ui, rep, svc, parse_log>>

chart_render_node ==
    /\ pc = "run_render_chart" /\ spc = "render_charts"
    /\ LET dq == sub["data_question"]
           previous_validation_errors == Get(sub, "validation_error", "None")
       IN IF ~heap[dq].chart_hint
          THEN \* chart_hint_to_dict(None) raises in build_prompt
               Raise("TypeError") /\ UNCHANGED <<sub, gen_log>>
          ELSE \E resp \in ChartResponses :
                  /\ gen_log' = Append(gen_log, [previous_error |-> previous_validation_errors,
                                                 out |-> resp.plotly_figure,
                                                 narrative |-> resp.narrative,
                                                 dataset |-> build_prompt_dataset(heap[dq])])
                  /\ IF ~resp.json
                     THEN \* JSONDecodeError is caught, narrative stays unbound
                          Raise("UnboundLocalError") /\ UNCHANGED sub
                     ELSE /\ sub' = Merge(sub,
                                [plotly_fig_json |-> IF resp.plotly_figure = "absent" THEN NoneV
                                                     ELSE DictV(resp.plotly_figure),
                                 narrative |-> IF resp.narrative = "absent" THEN "" ELSE resp.narrative])
                          /\ spc' = "validate_charts"
                          /\ UNCHANGED pc
    /\ UNCHANGED <<state, heap, val_log, exec_log, stage_log, q_log, vin, vout, ui, rep, svc, parse_log>>

chart_validate_node ==
    /\ pc = "run_render_chart" /\ spc = "validate_charts"
    /\ LET fig_json == Get(sub, "plotly_fig_json", NoneV)
       IN IF fig_json.t # "dict"
          THEN \* json.loads(None) raises outside the try block
               Raise("TypeError") /\ UNCHANGED <<sub, val_log>>
          ELSE LET error == ChartError(fig_json.v)
                   is_valid == (error = None)
                   counted == IF is_valid THEN sub
                              ELSE Put(sub, "validation_attempts", Get(sub, "validation_attempts", 0) + 1)
                   new_sub == Merge(counted, [is_valid |-> is_valid, validation_error |-> error])
               IN /\ sub' = new_sub
                  /\ spc' = is_valid_chart(new_sub)
                  /\ val_log' = Append(val_log, [is_valid |-> is_valid, error |-> error])
                  /\ UNCHANGED pc
    /\ UNCHANGED <<state, heap, gen_log, exec_log, stage_log, q_log, vin, vout, ui, rep, svc, parse_log>>

\* variant: the is_valid of the chart graph is written to the orchestrator state
run_render_chart_node_merge ==
    /\ pc = "run_render_chart" /\ spc = "END"
    /\ LET dq == state["data_question"]
           out == sub
           fig_json == json_dumps(Get(out, "plotly_fig_json", NoneV))
           is_valid == Get(out, "is_valid", FALSE)
           narrative == Get(out, "narrative", "")
           progress == Append(Get(state, "progress_messages", <<>>),
                              IF is_valid THEN Msg("Chart rendered successfully.", 0, 0)
                              ELSE Msg("Chart rendering failed.", 0, 0))
       IN /\ heap' = [heap EXCEPT ![dq] = AttachChart(heap[dq], fig_json, is_valid, narrative)]
          /\ state' = Merge(state, [chart_figure_json |-> fig_json, data_question |-> dq,
                                    is_valid |-> is_valid,
                                    progress_messages |-> progress])
          /\ q_log' = Append(q_log, [graph |-> "chart", dq |-> dq, is_valid |-> is_valid, df |-> None])
    /\ ui' = Stream(ui, state')
    /\ pc' = "accumulate"
    /\ spc' = "none"
    /\ sub' = EmptyState
    /\ stage_log' = Append(stage_log, "run_render_chart")
    /\ UNCHANGED <<gen_log, val_log, exec_log, vin, vout, rep, svc, parse_log>>

run_render_chart_node ==
    /\ pc = "run_render_chart" /\ spc = "END"
    /\ LET dq == state["data_question"]
           out == sub
           fig_json == json_dumps(Get(out, "plotly_fig_json", NoneV))
           is_valid == Get(out, "is_valid", FALSE)
           narrative == Get(out, "narrative", "")
           progress == Append(Get(state, "progress_messages", <<>>),
                              IF is_valid THEN Msg("Chart rendered successfully.", 0, 0)
                              ELSE Msg("Chart rendering failed.", 0, 0))
       IN /\ heap' = [heap EXCEPT ![dq] = AttachChart(heap[dq], fig_json, is_valid, narrative)]
          /\ state' = Merge(state, [chart_figure_json |-> fig_json, data_question |-> dq,
                                    progress_messages |-> progress])
          /\ q_log' = Append(q_log, [graph |-> "chart", dq |-> dq, is_valid |-> is_valid, df |-> None])
    /\ ui' = Stream(ui, state')
    /\ pc' = "accumulate"
    /\ spc' = "none"
    /\ sub' = EmptyState
    /\ stage_log' = Append(stage_log, "run_render_chart")
    /\ UNCHANGED <<gen_log, val_log, exec_log, vin, vout, rep, svc, parse_log>>

----------------------------------------------------------------------------
(* ada_streamlit.py: after the stream, and the except clause of the run *)

\* Python truth value of a narrative
Truthy(text) == text # None /\ text # ""

\* what the loop over the processed questions writes for question i
RenderQuestion(i, dq) ==
    <<Element("subheader", i, dq.original_text, <<>>)>>
    \o (IF dq.chart_figure_json.t = "str"
        THEN IF ChartError(dq.chart_figure_json.v) = None
             THEN <<Element("plotly_chart", i, dq.chart_figure_json.v, <<>>)>>
             ELSE <<Element("error", i, "Could not render chart", <<>>)>>
        ELSE <<>>)
    \o (IF Truthy(dq.narrative)
        THEN <<Element("subheader", i, "Analysis", <<>>), Element("write", i, dq.narrative, <<>>)>>
        ELSE <<>>)

\* what it logs for question i
LogQuestion(i, dq) ==
    <<LogEvent("dq_render_start", dq.original_text, i, 0)>>
    \o (IF dq.chart_figure_json.t = "str"
        THEN IF ChartError(dq.chart_figure_json.v) = None
             THEN <<LogEvent("dq_chart_rendered", "", i, 0)>>
             ELSE <<LogEvent("dq_chart_render_error", "", i, 0)>>
        ELSE <<>>)
    \o (IF Truthy(dq.narrative) THEN <<LogEvent("dq_narrative_rendered", "", i, 0)>> ELSE <<>>)

\* the post-processing of the final streamed state
PostProcess(u, final_state) ==
    LET processed == Get(final_state, "processed_questions", <<>>)
        is_valid == Get(final_state, "is_valid", FALSE)
        validation_message == Get(final_state, "validation_message", <<>>)
        summary == LogEvent("run_state_summary", IF is_valid THEN "valid" ELSE "invalid", 0, Len(processed))
        Page[k \in 0..Len(processed)] ==
            IF k = 0 THEN <<>> ELSE Page[k - 1] \o RenderQuestion(k, heap[processed[k]])
        Logged[k \in 0..Len(processed)] ==
            IF k = 0 THEN <<>> ELSE Logged[k - 1] \o LogQuestion(k, heap[processed[k]])
    IN IF ~is_valid
       THEN [status_box |-> <<>>,
             out |-> Append(u.out, Element("info", 0, "", validation_message)),
             log |-> u.log \o <<summary, LogEvent("run_completed", "invalid", 0, 0)>>]
       ELSE IF processed = <<>>
       THEN [status_box |-> <<>>,
             out |-> Append(u.out, Element("warning", 0, "No DataQuestions were produced by the parser.", <<>>)),
             log |-> u.log \o <<summary, LogEvent("run_completed", "no_dataquestions", 0, 0)>>]
       ELSE [status_box |-> <<>>,
             out |-> u.out \o Page[Len(processed)],
             log |-> u.log \o <<summary>> \o Logged[Len(processed)]
                     \o <<LogEvent("run_completed", "ok", 0, 0)>>]

\* the stream has ended without an exception
run_completed ==
    /\ pc = "done"
    /\ ui' = PostProcess(ui, state)
    /\ pc' = "rendered"
    /\ UNCHANGED <<state, heap, spc, sub, gen_log, val_log, exec_log, stage_log, q_log, vin, vout, rep, svc, parse_log>>

\* variant: the handler also shows what was processed before the failure
ExceptClause_partial(u, e) ==
    LET shown == PostProcess(u, Put(state, "is_valid", TRUE))
    IN [u EXCEPT !.log = Append(@, LogEvent("run_failed", e, 0, 0)),
                 !.out = Append(shown.out, Element("error", 0, "Something went wrong. Check logs for details.", <<>>))]

\* except Exception as e: logger.exception(...), st.error(...)
ExceptClause(u, e) ==
    [u EXCEPT !.log = Append(@, LogEvent("run_failed", e, 0, 0)),
              !.out = Append(@, Element("error", 0, "Something went wrong. Check logs for details.", <<>>))]

\* an exception left the stream
run_failed ==
    /\ pc = "failed"
    /\ ui' = ExceptClause(ui, spc)
    /\ pc' = "run_failed"
    /\ UNCHANGED <<state, heap, spc, sub, gen_log, val_log, exec_log, stage_log, q_log, vin, vout, rep, svc, parse_log>>

----------------------------------------------------------------------------
(* mcp_server/sql_postgres_tcp_server.py.  A statement is the sequence of
   its words; the database answers a statement with "accepts" or "rejects"
   (any error raised while it runs), or no pool can be created ("no_pool"). *)

\* None, where an int is expected
NoneInt == [t |-> "NoneType", v |-> 0]
IntV(n) == [t |-> "int", v |-> n]

\* Python's `x or default` for an Optional[int]
Or(x, default) == IF x.t = "NoneType" \/ x.v = 0 THEN default ELSE x.v

Min(a, b) == IF a <= b THEN a ELSE b

DISALLOWED ==
    <<"insert", "update", "delete", "alter", "drop", "truncate", "create", "grant", "revoke">>

SqlWords == {"select", "DELETE", "updated_at", ";"}

Statements == BSeq(SqlWords, MaxWords)

\* `bad in s` for one word of s: the keyword is the lowered word or a part of it
InWord(bad, word) ==
    \/ Lower(word) = bad
    \/ word = "updated_at" /\ bad = "update"

\* variant: a keyword is matched against whole words only
_is_disallowed_words(sql) ==
    LET found == {k \in DOMAIN DISALLOWED : \E i \in DOMAIN sql : Lower(sql[i]) = DISALLOWED[k]}
    IN IF found = {} THEN None
       ELSE DISALLOWED[CHOOSE k \in found : \A j \in found : k <= j]

_is_disallowed(sql) ==
    LET found == {k \in DOMAIN DISALLOWED : \E i \in DOMAIN sql : InWord(DISALLOWED[k], sql[i])}
    IN IF found = {} THEN None
       ELSE DISALLOWED[CHOOSE k \in found : \A j \in found : k <= j]

\* sql.rstrip().rstrip(";")
rstrip_semicolon(sql) ==
    LET keep == {n \in 0..Len(sql) : \A i \in (n + 1)..Len(sql) : sql[i] = ";"}
    IN SubSeq(sql, 1, CHOOSE n \in keep : \A m \in keep : n <= m)

\* variant: the requested limit is used instead of the maximum whenever given
_enforce_limit_requested(sql, requested_limit, max_rows) ==
    [inner |-> rstrip_semicolon(sql), limit |-> Or(requested_limit, max_rows)]

\* the statement SELECT * FROM ( sql ) AS sub LIMIT limit
_enforce_limit(sql, requested_limit, max_rows) ==
    [inner |-> rstrip_semicolon(sql),
     limit |-> Min(Or(requested_limit, max_rows), max_rows)]

\* a response line, or none when the handler raised; db lists what was sent
\* to the database while the request was handled
Response(ok, error, valid, message, rows, db) ==
    [sent |-> TRUE, ok |-> ok, error |-> error, valid |-> valid, message |-> message,
     rows |-> rows, db |-> db]

NoResponse == [sent |-> FALSE, ok |-> FALSE, error |-> "", valid |-> FALSE, message |-> "",
               rows |-> "none", db |-> <<>>]

Tools == {"sql.validate", "sql.query", "schema.introspect", "other"}

\* payload: tool, query (a str or another JSON value), limit
_handle_request(payload, pg, max_rows) ==
    LET query == payload.query
        empty == query.t # "str" \/ query.v = <<>>
    IN IF pg = "no_pool" THEN NoResponse  \* _get_pool() raises outside the try
       ELSE IF payload.tool = "sql.validate" THEN
            IF empty THEN Response(FALSE, "empty query", FALSE, "", "none", <<>>)
            ELSE IF _is_disallowed(query.v) # None
            THEN Response(TRUE, "", FALSE, "disallowed statement", "none", <<>>)
            ELSE IF pg = "accepts"
            THEN Response(TRUE, "", TRUE, "ok", "none", <<[stmt |-> "EXPLAIN", sql |-> query.v, limit |-> 0]>>)
            ELSE Response(TRUE, "", FALSE, "pg_error", "none", <<[stmt |-> "EXPLAIN", sql |-> query.v, limit |-> 0]>>)
       ELSE IF payload.tool = "sql.query" THEN
            IF empty THEN Response(FALSE, "empty query", FALSE, "", "none", <<>>)
            ELSE IF _is_disallowed(query.v) # None
            THEN Response(TRUE, "disallowed statement", FALSE, "", "empty", <<>>)
            ELSE LET safe_sql == _enforce_limit(query.v, payload.limit, max_rows)
                     db == <<[stmt |-> "SELECT", sql |-> safe_sql.inner, limit |-> safe_sql.limit]>>
                 IN \* PostgreSQL rejects a negative LIMIT
                    IF pg = "accepts" /\ safe_sql.limit >= 0
                    THEN Response(TRUE, "", FALSE, "", "rows", db)
                    ELSE Response(TRUE, "pg_error", FALSE, "", "empty", db)
       ELSE IF payload.tool = "schema.introspect"
       THEN Response(TRUE, "", FALSE, "", "meta", <<[stmt |-> "introspect", sql |-> <<>>, limit |-> 0]>>)
       ELSE Response(FALSE, "unknown tool", FALSE, "", "none", <<>>)

----------------------------------------------------------------------------
(* utils/mcp_client_tcp.py *)

\* MCPSQLClientTCP.aquery: the arguments it sends
aquery_payload(query, limit, client_max_rows) ==
    [query |-> StrV(query), limit |-> IntV(Or(limit, client_max_rows))]

\* _acall_tool: the result dict of the tool, or a dict with an "error" entry
_acall_tool(name, arguments, server_up, pg, max_rows) ==
    IF ~server_up THEN [NoResponse EXCEPT !.error = "connection refused"]
    ELSE LET resp == _handle_request([tool |-> name, query |-> arguments.query,
                                      limit |-> arguments.limit], pg, max_rows)
         IN IF ~resp.sent THEN [resp EXCEPT !.error = "no response from TCP server"]
            ELSE IF ~resp.ok
            THEN [resp EXCEPT !.error = IF resp.error = "" THEN "unknown error" ELSE resp.error]
            ELSE resp

\* MCPSQLClientTCP.validate: the tuple (valid, message)
mcp_validate(query, server_up, pg, max_rows) ==
    LET resp == _acall_tool("sql.validate", [query |-> StrV(query), limit |-> NoneInt],
                            server_up, pg, max_rows)
    IN IF resp.error # "" THEN <<FALSE, resp.error>> ELSE <<resp.valid, resp.message>>

\* MCPSQLClientTCP.test_connection: validates SELECT 1
test_connection(server_up, pg) ==
    LET r == mcp_validate(<<"select">>, server_up, IF pg = "no_pool" THEN pg ELSE "accepts", 1)
    IN IF r[1] THEN <<TRUE, "TCP connection successful">>
       ELSE <<FALSE, "Connection test failed">>

\* get_tcp_mcp_sql_client_from_settings: bool(MCP_ENABLED), where the
\* setting is the int 0 when unset and a string otherwise
get_tcp_mcp_sql_client_from_settings(MCP_ENABLED) ==
    IF MCP_ENABLED = "unset" THEN None ELSE "client"

----------------------------------------------------------------------------
(* services/sql_validation_service.py, tools/postgres_validator_asyncpg.py *)

_USE_MCP(MCP_ENABLED) == MCP_ENABLED = "1"

\* truth value of a tuple
Bool(tuple) == Len(tuple) > 0

\* validate_sql: conn.prepare(sql)
validate_sql(sql, pg) ==
    IF pg = "no_pool" THEN [kind |-> "raise", is_valid |-> FALSE, error |-> "OSError"]
    ELSE IF pg = "accepts" THEN [kind |-> "return", is_valid |-> TRUE, error |-> None]
    ELSE [kind |-> "return", is_valid |-> FALSE, error |-> "pg_error"]

\* SQLValidationService.validate for the call c: sql, MCP_ENABLED, whether
\* the tool server is up, the database's answer, whether POSTGRES_URI is set
SQLValidationService_validate(c) ==
    LET mcp == get_tcp_mcp_sql_client_from_settings(c.MCP_ENABLED)
        use_mcp == _USE_MCP(c.MCP_ENABLED)
    IN IF mcp # None /\ use_mcp /\ Bool(test_connection(c.server_up, c.pg))
       THEN LET r == mcp_validate(c.sql, c.server_up, c.pg, 1)
            IN IF r[1] THEN [kind |-> "return", is_valid |-> TRUE, error |-> None]
               ELSE [kind |-> "return", is_valid |-> FALSE, error |-> r[2]]
       ELSE IF ~c.uri_set THEN [kind |-> "raise", is_valid |-> FALSE, error |-> "RuntimeError"]
       ELSE validate_sql(c.sql, c.pg)

NoAnswer == [kind |-> "none", is_valid |-> FALSE, error |-> None]

SqlValInit ==
    /\ pc = "sql_validate"
    /\ svc \in [op : {"validate"}, sql : Statements, MCP_ENABLED : {"unset", "0", "1"},
                 server_up : BOOLEAN, pg : {"accepts", "rejects", "no_pool"},
                 uri_set : BOOLEAN, result : {NoAnswer}]
    /\ vin = <<>> /\ vout = NoResult
    /\ Idle

sql_validate_call ==
    /\ pc = "sql_validate"
    /\ svc' = [svc EXCEPT !.result = SQLValidationService_validate(svc)]
    /\ pc' = "sql_validated"
    /\ UNCHANGED <<state, heap, spc, sub, gen_log, val_log, exec_log, stage_log, q_log, vin, vout, ui, rep, parse_log>>

SqlValNext == sql_validate_call

SqlValSpec == SqlValInit /\ [][SqlValNext]_vars

----------------------------------------------------------------------------
(* services/data_extraction_service.py *)

\* what run_query did: the backend that executed the statement ("mcp",
\* "sqlalchemy", or "none" when it raised before reaching one) and how it ended
QueryAnswer(kind, path, error) == [kind |-> kind, path |-> path, error |-> error]

NoQueryAnswer == QueryAnswer("none", "none", None)

\* MCPSQLClientTCP.aquery: the dict it returns, as (error, rows)
mcp_query(query, limit, client_max_rows, server_up, pg, max_rows) ==
    LET resp == _acall_tool("sql.query", aquery_payload(query, limit, client_max_rows),
                            server_up, pg, max_rows)
    IN IF resp.error # "" THEN [error |-> resp.error, rows |-> "empty"]
       ELSE [error |-> "", rows |-> resp.rows]

\* the SQLAlchemy fallback of run_query: get_sql_db(uri), conn.execute(text(sql))
sqlalchemy_execute(c) ==
    IF ~c.uri_set THEN QueryAnswer("raise", "sqlalchemy", "ArgumentError")
    ELSE IF c.pg = "no_pool" THEN QueryAnswer("raise", "sqlalchemy", "OperationalError")
    ELSE IF c.pg = "rejects" THEN QueryAnswer("raise", "sqlalchemy", "ProgrammingError")
    ELSE QueryAnswer("return", "sqlalchemy", None)

\* DataExtractionService.run_query for the call c: sql, MCP_ENABLED, whether
\* the tool server is up, the database's answer, whether POSTGRES_URI is set,
\* MCP_SQL_MAX_ROWS of the client and of the server
DataExtractionService_run_query(c) ==
    LET mcp == get_tcp_mcp_sql_client_from_settings(c.MCP_ENABLED)
        use_mcp == _USE_MCP(c.MCP_ENABLED)
    IN IF mcp = None
       THEN \* self.mcp.test_connection() is called before the None test
            QueryAnswer("raise", "none", "AttributeError")
       ELSE LET test_conn_ok == test_connection(c.server_up, c.pg)[1]
            IN IF use_mcp /\ test_conn_ok
               THEN LET resp == mcp_query(c.sql, IntV(c.client_max_rows), c.client_max_rows,
                                          c.server_up, c.pg, c.max_rows)
                    IN IF resp.error # "" THEN QueryAnswer("raise", "mcp", "RuntimeError")
                       ELSE QueryAnswer("return", "mcp", None)
               ELSE sqlalchemy_execute(c)

RunQueryInit ==
    /\ pc = "run_query"
    /\ svc \in [op : {"run_query"}, sql : Statements, MCP_ENABLED : {"unset", "0", "1"},
                 server_up : BOOLEAN, pg : {"accepts", "rejects", "no_pool"},
                 uri_set : BOOLEAN, client_max_rows : 1..MaxRows, max_rows : 1..MaxRows,
                 result : {NoQueryAnswer}]
    /\ vin = <<>> /\ vout = NoResult
    /\ Idle

run_query_call ==
    /\ pc = "run_query"
    /\ svc' = [svc EXCEPT !.result = DataExtractionService_run_query(svc)]
    /\ pc' = "query_done"
    /\ UNCHANGED <<state, heap, spc, sub, gen_log, val_log, exec_log, stage_log, q_log, vin, vout, ui, rep, parse_log>>

RunQueryNext == run_query_call

RunQuerySpec == RunQueryInit /\ [][RunQueryNext]_vars

----------------------------------------------------------------------------
(* Tool calls: a request handled by the tool server, either as it arrives on
   the socket or as MCPSQLClientTCP.aquery builds it. *)

\* a JSON value sent as the query: a string, or something else
Queries == {StrV(w) : w \in Statements} \cup {IntV(0)}

\* a limit: absent, or an integer
Limits == {NoneInt} \cup {IntV(n) : n \in (0 - MaxRows)..(MaxRows + 1)}

ToolInit ==
    /\ pc \in {"aquery", "request"}
    /\ svc \in [op : {"tool"}, tool : Tools, query : Queries, limit : Limits,
                 client_max_rows : 1..MaxRows, max_rows : 1..MaxRows,
                 pg : {"accepts", "rejects", "no_pool"}, response : {NoResponse}]
    /\ pc = "aquery" => (svc.tool = "sql.query" /\ svc.query.t = "str")
    /\ pc = "request" => svc.client_max_rows = 1
    /\ vin = <<>> /\ vout = NoResult
    /\ Idle

\* MCPSQLClientTCP.aquery builds the request from the caller's arguments
aquery ==
    /\ pc = "aquery"
    /\ LET payload == aquery_payload(svc.query.v, svc.limit, svc.client_max_rows)
       IN svc' = [svc EXCEPT !.query = payload.query, !.limit = payload.limit]
    /\ pc' = "request"
    /\ UNCHANGED <<state, heap, spc, sub, gen_log, val_log, exec_log, stage_log, q_log, vin, vout, ui, rep, parse_log>>

\* the server handles the request
handle_request ==
    /\ pc = "request"
    /\ svc' = [svc EXCEPT !.response =
                  _handle_request([tool |-> svc.tool, query |-> svc.query, limit |-> svc.limit],
                                  svc.pg, svc.max_rows)]
    /\ pc' = "responded"
    /\ UNCHANGED <<state, heap, spc, sub, gen_log, val_log, exec_log, stage_log, q_log, vin, vout, ui, rep, parse_log>>

ToolNext == aquery \/ handle_request

ToolSpec == ToolInit /\ [][ToolNext]_vars

----------------------------------------------------------------------------
(* One client connection of the tool server: handle_client reads request
   lines and writes response lines until the client closes or the handler
   raises. *)

\* the queries of the requests sent on the connection
ConnQueries == {StrV(<<"select">>), StrV(<<"DELETE">>), StrV(<<>>), IntV(0)}

\* a line received: text that is not JSON, a JSON value that is not an
\* object, or a JSON object (the payload)
Line(kind, tool, query) ==
    [kind |-> kind, payload |-> [tool |-> tool, query |-> query, limit |-> NoneInt]]

ConnLines ==
    {Line("text", "", IntV(0)), Line("json_value", "", IntV(0))}
    \cup {Line("object", tool, query) : tool \in Tools, query \in ConnQueries}

\* one iteration of the loop of handle_client: the response line written
\* for the line, or none when an exception leaves the loop
handle_line(line, pg, max_rows) ==
    IF line.kind = "text" THEN Response(FALSE, "invalid json", FALSE, "", "none", <<>>)
    ELSE IF line.kind = "json_value" THEN NoResponse  \* payload.get raises AttributeError
    ELSE _handle_request(line.payload, pg, max_rows)

ConnInit ==
    /\ pc = "serving"
    /\ svc \in [op : {"conn"}, pg : {"accepts", "rejects", "no_pool"}, max_rows : 1..MaxRows,
                 received : {<<>>}, sent : {<<>>}]
    /\ vin = <<>> /\ vout = NoResult
    /\ Idle

\* a line arrives and is handled; an exception closes the connection
handle_client_line ==
    /\ pc = "serving" /\ Len(svc.received) < MaxLines
    /\ \E line \in ConnLines :
          LET resp == handle_line(line, svc.pg, svc.max_rows)
          IN /\ svc' = [svc EXCEPT !.received = Append(@, line),
                                   !.sent = IF resp.sent THEN Append(@, resp) ELSE @]
             /\ pc' = IF resp.sent THEN "serving" ELSE "aborted"
    /\ UNCHANGED <<state, heap, spc, sub, gen_log, val_log, exec_log, stage_log, q_log, vin, vout, ui, rep, parse_log>>

\* the client closes the connection: readline returns no line
client_eof ==
    /\ pc = "serving"
    /\ pc' = "closed"
    /\ UNCHANGED <<state, heap, spc, sub, gen_log, val_log, exec_log, stage_log, q_log, vin, vout, ui, rep, svc, parse_log>>

ConnNext == handle_client_line \/ client_eof

ConnSpec == ConnInit /\ [][ConnNext]_vars

----------------------------------------------------------------------------
(* utils/mcp_client_tcp.py: one call of MCPSQLClientTCP.validate or .query,
   step by step through _acall_tool.  The network decides how the connection
   attempt, the send and the read end and what line comes back. *)

\* what _acall_tool hands back: the dict it returns (error = "" when the
\* dict has no "error" entry), or the exception that leaves it
ToolResult(kind, error, valid, message, rows) ==
    [kind |-> kind, error |-> error, valid |-> valid, message |-> message, rows |-> rows]

NoToolResult == ToolResult("none", "", FALSE, "", "none")

\* the response lines a peer can send: text that is not JSON, a JSON value
\* that is not an object, or an object {ok, error / result}
PeerResponses ==
    {Response(FALSE, "empty query", FALSE, "", "none", <<>>),
     Response(FALSE, "", FALSE, "", "none", <<>>),
     Response(TRUE, "", TRUE, "ok", "none", <<>>),
     Response(TRUE, "", FALSE, "pg_error", "none", <<>>),
     Response(TRUE, "", FALSE, "", "rows", <<>>),
     Response(TRUE, "pg_error", FALSE, "", "empty", <<>>)}

PeerLines ==
    {[kind |-> "not_json", resp |-> NoResponse], [kind |-> "json_value", resp |-> NoResponse]}
    \cup {[kind |-> "object", resp |-> r] : r \in PeerResponses}

\* variant: only the three named exceptions are caught
_acall_tool_except_named(exc) ==
    IF exc = "TimeoutError" THEN ToolResult("return", "connection timeout", FALSE, "", "none")
    ELSE IF exc = "ConnectionRefusedError" THEN ToolResult("return", "connection refused", FALSE, "", "none")
    ELSE IF exc = "JSONDecodeError" THEN ToolResult("return", "invalid JSON response", FALSE, "", "none")
    ELSE ToolResult("raise", exc, FALSE, "", "none")

\* the except clauses of _acall_tool
_acall_tool_except(exc) ==
    IF exc = "TimeoutError" THEN ToolResult("return", "connection timeout", FALSE, "", "none")
    ELSE IF exc = "ConnectionRefusedError" THEN ToolResult("return", "connection refused", FALSE, "", "none")
    ELSE IF exc = "JSONDecodeError" THEN ToolResult("return", "invalid JSON response", FALSE, "", "none")
    ELSE ToolResult("return", "unexpected error", FALSE, "", "none")

\* the part of _acall_tool after the connection was closed
_acall_tool_parse(read, line) ==
    IF read = "eof" THEN ToolResult("return", "no response from TCP server", FALSE, "", "none")
    ELSE IF line.kind = "not_json" THEN _acall_tool_except("JSONDecodeError")
    ELSE IF line.kind = "json_value" THEN _acall_tool_except("AttributeError")
    ELSE IF ~line.resp.ok
    THEN ToolResult("return", IF line.resp.error = "" THEN "unknown error" ELSE line.resp.error,
                    FALSE, "", "none")
    ELSE ToolResult("return", line.resp.error, line.resp.valid, line.resp.message, line.resp.rows)

\* avalidate: the tuple (valid, message)
avalidate(resp) ==
    IF resp.kind = "raise" THEN [kind |-> "raise", value |-> <<resp.error>>]
    ELSE IF resp.error # "" THEN [kind |-> "return", value |-> <<FALSE, resp.error>>]
    ELSE [kind |-> "return", value |-> <<resp.valid, resp.message>>]

\* aquery: the dict (error, rows, rowcount); error = "" when there is no entry
aquery_result(resp) ==
    IF resp.kind = "raise" THEN [kind |-> "raise", value |-> <<resp.error>>]
    ELSE IF resp.error # "" THEN [kind |-> "return", value |-> <<resp.error, "empty", 0>>]
    ELSE IF resp.rows = "rows" THEN [kind |-> "return", value |-> <<"", "rows", 1>>]
    ELSE [kind |-> "return", value |-> <<"", "empty", 0>>]

ClientInit ==
    /\ pc = "open_connection"
    /\ svc \in [op : {"client"}, method : {"validate", "query"},
                 connect : {"ok", "TimeoutError", "ConnectionRefusedError", "OSError"},
                 send : {"ok", "ConnectionResetError"},
                 read : {"line", "eof", "ConnectionResetError"},
                 line : PeerLines,
                 conn : {"none"}, opened : {0}, resp : {NoToolResult},
                 result : {[kind |-> "none", value |-> <<>>]}]
    /\ vin = <<>> /\ vout = NoResult
    /\ Idle

\* asyncio.wait_for(asyncio.open_connection(...))
acall_open_connection ==
    /\ pc = "open_connection"
    /\ IF svc.connect = "ok"
       THEN svc' = [svc EXCEPT !.conn = "open", !.opened = @ + 1] /\ pc' = "send"
       ELSE svc' = [svc EXCEPT !.resp = _acall_tool_except(svc.connect)] /\ pc' = "acall_returned"
    /\ UNCHANGED <<state, heap, spc, sub, gen_log, val_log, exec_log, stage_log, q_log, vin, vout, ui, rep, parse_log>>

\* writer.write(request_data); await writer.drain()
acall_send ==
    /\ pc = "send"
    /\ IF svc.send = "ok"
       THEN pc' = "read" /\ UNCHANGED svc
       ELSE svc' = [svc EXCEPT !.resp = _acall_tool_except(svc.send)] /\ pc' = "acall_returned"
    /\ UNCHANGED <<state, heap, spc, sub, gen_log, val_log, exec_log, stage_log, q_log, vin, vout, ui, rep, parse_log>>

\* line = await reader.readline()
acall_read ==
    /\ pc = "read"
    /\ IF svc.read # "ConnectionResetError"
       THEN pc' = "close" /\ UNCHANGED svc
       ELSE svc' = [svc EXCEPT !.resp = _acall_tool_except(svc.read)] /\ pc' = "acall_returned"
    /\ UNCHANGED <<state, heap, spc, sub, gen_log, val_log, exec_log, stage_log, q_log, vin, vout, ui, rep, parse_log>>

\* writer.close(); await writer.wait_closed()
acall_close ==
    /\ pc = "close"
    /\ svc' = [svc EXCEPT !.conn = "closed"]
    /\ pc' = "parse"
    /\ UNCHANGED <<state, heap, spc, sub, gen_log, val_log, exec_log, stage_log, q_log, vin, vout, ui, rep, parse_log>>

\* the empty-line test, json.loads and the ok test
acall_parse ==
    /\ pc = "parse"
    /\ svc' = [svc EXCEPT !.resp = _acall_tool_parse(svc.read, svc.line)]
    /\ pc' = "acall_returned"
    /\ UNCHANGED <<state, heap, spc, sub, gen_log, val_log, exec_log, stage_log, q_log, vin, vout, ui, rep, parse_log>>

\* avalidate / aquery turn what _acall_tool returned into their result
client_return ==
    /\ pc = "acall_returned"
    /\ svc' = [svc EXCEPT !.result = IF svc.method = "validate" THEN avalidate(svc.resp)
                                      ELSE aquery_result(svc.resp)]
    /\ pc' = "returned"
    /\ UNCHANGED <<state, heap, spc, sub, gen_log, val_log, exec_log, stage_log, q_log, vin, vout, ui, rep, parse_log>>

ClientNext ==
    \/ acall_open_connection
    \/ acall_send
    \/ acall_read
    \/ acall_close
    \/ acall_parse
    \/ client_return

ClientSpec == ClientInit /\ [][ClientNext]_vars

----------------------------------------------------------------------------
(* mcp_server/sql_postgres_tcp_server.py: the connection pool.  asyncio runs
   one handle_client coroutine per connection on one thread; a coroutine
   gives way to the others only where it awaits. *)

PoolClients == 1..MaxClients

\* _POOL = 0: the global name is not bound yet; pools are numbered in the
\* order asyncpg.create_pool returned them
PoolInit ==
    /\ pc = "serving"
    /\ svc = [op |-> "pool", _POOL |-> 0, calls |-> 0, failed |-> 0, created |-> 0,
              used |-> {},
              handler |-> [h \in PoolClients |-> [at |-> "readline", pool |-> 0, lines |-> 0]]]
    /\ vin = <<>> /\ vout = NoResult
    /\ Idle

\* handle_client read a request line; _handle_request calls _get_pool, which
\* returns _POOL when the name is bound and else calls asyncpg.create_pool
\* and awaits it
get_pool(h) ==
    /\ pc = "serving"
    /\ svc.handler[h].at = "readline" /\ svc.handler[h].lines < MaxLines
    /\ IF svc._POOL # 0
       THEN svc' = [svc EXCEPT !.handler[h].at = "tool", !.handler[h].pool = svc._POOL]
       ELSE svc' = [svc EXCEPT !.handler[h].at = "create_pool", !.calls = @ + 1]
    /\ UNCHANGED <<pc, state, heap, spc, sub, gen_log, val_log, exec_log, stage_log, q_log, vin, vout, ui, rep, parse_log>>

\* the awaited create_pool returns a new pool, which is bound to _POOL and
\* returned, or raises, which ends handle_client (its finally clause closes
\* the connection)
create_pool_returns(h) ==
    /\ pc = "serving"
    /\ svc.handler[h].at = "create_pool"
    /\ \E connected \in BOOLEAN :
          IF connected
          THEN svc' = [svc EXCEPT !.created = @ + 1, !._POOL = svc.created + 1,
                                  !.handler[h].at = "tool", !.handler[h].pool = svc.created + 1]
          ELSE svc' = [svc EXCEPT !.failed = @ + 1, !.handler[h].at = "closed"]
    /\ UNCHANGED <<pc, state, heap, spc, sub, gen_log, val_log, exec_log, stage_log, q_log, vin, vout, ui, rep, parse_log>>

\* the tool branch runs on the pool _get_pool returned and the response is
\* written; the handler goes back to readline
tool_on_pool(h) ==
    /\ pc = "serving"
    /\ svc.handler[h].at = "tool"
    /\ svc' = [svc EXCEPT !.used = @ \cup {svc.handler[h].pool},
                          !.handler[h].at = "readline", !.handler[h].lines = @ + 1]
    /\ UNCHANGED <<pc, state, heap, spc, sub, gen_log, val_log, exec_log, stage_log, q_log, vin, vout, ui, rep, parse_log>>

\* the client closed its connection
connection_eof(h) ==
    /\ pc = "serving"
    /\ svc.handler[h].at = "readline"
    /\ svc' = [svc EXCEPT !.handler[h].at = "closed"]
    /\ UNCHANGED <<pc, state, heap, spc, sub, gen_log, val_log, exec_log, stage_log, q_log, vin, vout, ui, rep, parse_log>>

PoolNext ==
    \/ \E h \in PoolClients : get_pool(h)
    \/ \E h \in PoolClients : create_pool_returns(h)
    \/ \E h \in PoolClients : tool_on_pool(h)
    \/ \E h \in PoolClients : connection_eof(h)

PoolSpec == PoolInit /\ [][PoolNext]_vars

----------------------------------------------------------------------------
(* Repeated invocation: a nested graph (graphs/data_extractor_graph.py or
   graphs/charting_graph.py) is invoked twice on the same input, the way
   run_extractor_node and run_render_chart_node invoke it. *)

IdemInit ==
    /\ pc \in {"run_extractor", "run_render_chart"}
    /\ \E hint \in BOOLEAN :
          heap = <<[DataQuestion("q1", <<"revenue">>, <<"product">>, hint) EXCEPT !.dataset = "json_rows"]>>
    /\ state = [semantic |-> "semantic", data_question |-> 1, current_idx |-> 0,
                questions |-> <<1>>, processed_questions |-> <<>>]
    /\ spc = "none" /\ sub = EmptyState
    /\ gen_log = <<>> /\ val_log = <<>> /\ exec_log = <<>>
    /\ stage_log = <<>> /\ q_log = <<>>
    /\ vin = <<>> /\ vout = NoResult
    /\ ui = [status_box |-> <<>>, out |-> <<>>, log |-> <<>>]
    /\ rep = NoRun
    /\ parse_log = <<>>
    /\ svc = NoCall

\* the first invocation has returned: keep what it returned and what it
\* called, and invoke the graph again
invoke_again ==
    /\ pc \in {"run_extractor", "run_render_chart"} /\ spc = "END"
    /\ rep.runs = 0
    /\ rep' = [runs |-> 1, sub |-> sub, gen_log |-> gen_log, val_log |-> val_log]
    /\ spc' = "none"
    /\ sub' = EmptyState
    /\ UNCHANGED <<pc, state, heap, gen_log, val_log, exec_log, stage_log, q_log, vin, vout, ui, svc, parse_log>>

IdemNext ==
    \/ run_extractor_invoke
    \/ sql_generate_node
    \/ sql_validate_node
    \/ sql_extract_node
    \/ run_render_chart_invoke
    \/ chart_render_node
    \/ chart_validate_node
    \/ invoke_again

IdemSpec == IdemInit /\ [][IdemNext]_vars

----------------------------------------------------------------------------

Next ==
    \/ run_parsing_invoke
    \/ parse_node
    \/ parser_validation_node
    \/ run_parsing_node
    \/ init_loop_node
    \/ pick_next_question_node
    \/ run_extractor_invoke
    \/ sql_generate_node
    \/ sql_validate_node
    \/ sql_extract_node
    \/ run_extractor_node
    \/ run_render_chart_invoke
    \/ chart_render_node
    \/ chart_validate_node
    \/ run_render_chart_node
    \/ accumulate_and_advance_node
    \/ run_completed
    \/ run_failed

Spec == Init /\ [][Next]_vars

----------------------------------------------------------------------------
(* Properties *)

Last(sq) == sq[Len(sq)]

\* every validation of the current invocation reported invalid
AllRejected == \A i \in DOMAIN val_log : ~val_log[i].is_valid

\* a SQL or chart graph invocation is in progress
InRetryLoop == pc \in {"run_extractor", "run_render_chart"} /\ spc # "none"

\* the logs are those of a SQL graph invocation
SqlLogs ==
    \/ pc = "run_extractor" /\ spc # "none"
    \/ pc = "run_render_chart" /\ spc = "none"
    \/ pc = "failed" /\ spc = "RuntimeError"

\* the logs are those of a finished chart graph invocation
ChartDone == pc \in {"accumulate", "pick_next", "done"} /\ val_log # <<>>

\* C1: in one SQL or chart graph invocation generation is never invoked a
\* 4th time; when every validation so far was rejected, the 3rd rejection
\* ends the invocation with is_valid = false after exactly 3 generations, and
\* the invocation does not end before it.
C1_RetryBound ==
    InRetryLoop =>
        /\ Len(gen_log) <= 3
        /\ AllRejected =>
              /\ Len(val_log) = 3 =>
                    (spc = "END" /\ sub["is_valid"] = FALSE /\ Len(gen_log) = 3)
              /\ spc = "END" => Len(val_log) = 3

C1_Witness ==
    pc = "run_extractor" /\ spc = "END" /\ AllRejected /\ Len(gen_log) = 3

\* C2: when the chart validator rejected every attempt, generation was called
\* 3 times and the work item carries no chart and the narrative of the 3rd
\* generation call (the empty string when that answer had none), never None;
\* after Accumulate that item is the last processed one.
C2_ChartExhausted ==
    (ChartDone /\ AllRejected) =>
        LET item == heap[state["data_question"]]
            last == gen_log[Len(gen_log)]
        IN /\ Len(gen_log) = 3
           /\ item.chart_figure_json = NoneV
           /\ item.narrative # None
           /\ last.narrative \in Narratives => item.narrative = last.narrative
           /\ last.narrative = "absent" => item.narrative = ""
           /\ pc # "accumulate" =>
                 Last(state["processed_questions"]) = state["data_question"]

C2_Witness ==
    /\ ChartDone /\ AllRejected /\ pc = "done"
    /\ gen_log[1].narrative = "n1" /\ gen_log[3].narrative = "n2"
    /\ heap[state["data_question"]].narrative = "n2"

\* C3: in one SQL graph invocation the query executor runs at most once,
\* only after the latest validation reported valid, on the SQL text of the
\* latest generation; with attempts 1 and 2 rejected and attempt 3 approved
\* there were 3 generations and, once extract_data_node has run, exactly one
\* execution, of attempt 3's SQL.
C3_ExecuteOnce ==
    SqlLogs =>
        /\ Len(exec_log) <= 1
        /\ exec_log # <<>> =>
              /\ val_log # <<>> /\ Last(val_log).is_valid
              /\ Len(gen_log) = Len(val_log)
              /\ exec_log[1] = Last(gen_log).out
        /\ (/\ Len(val_log) = 3
            /\ ~val_log[1].is_valid /\ ~val_log[2].is_valid /\ val_log[3].is_valid) =>
              /\ Len(gen_log) = 3
              /\ spc # "extract_data_node" => exec_log = <<gen_log[3].out>>

C3_Witness ==
    /\ pc = "run_render_chart" /\ spc = "none"
    /\ Len(val_log) = 3 /\ val_log[3].is_valid
    /\ val_log[1].error # val_log[2].error
    /\ exec_log = <<"sql_ok">>

\* C4: the first generation call of an invocation receives no previous
\* error, and the k-th call (k >= 2) receives the error reported by the
\* (k-1)-th validation of the same invocation.
C4_ErrorThreading ==
    \A k \in DOMAIN gen_log :
        IF k = 1 THEN gen_log[k].previous_error = None
        ELSE /\ k - 1 \in DOMAIN val_log
             /\ ~val_log[k - 1].is_valid
             /\ val_log[k - 1].error # None
             /\ gen_log[k].previous_error = val_log[k - 1].error

C4_Witness ==
    /\ pc = "run_extractor" /\ Len(gen_log) = 3
    /\ gen_log[2].previous_error = "e1" /\ gen_log[3].previous_error = "e2"

\* C5: a SQL graph invocation whose validations were all rejected never calls
\* the query executor; after 3 rejections run_extractor_node completes (the
\* run goes on to run_render_chart, it does not fail) and records no frame
\* (df = None) and the dataset "[]" on the question.
C5_State ==
    /\ (SqlLogs /\ AllRejected) => (exec_log = <<>> /\ pc # "failed")
    /\ (pc = "run_render_chart" /\ spc = "none" /\ AllRejected) =>
          /\ Len(val_log) = 3
          /\ state["df"] = None
          /\ heap[state["data_question"]].dataset = "[]"
          /\ Last(stage_log) = "run_extractor"
          /\ Last(q_log).graph = "sql" /\ ~Last(q_log).is_valid /\ Last(q_log).df = None

C5_Step ==
    (pc = "run_extractor" /\ spc = "END" /\ AllRejected) => pc' = "run_render_chart"

C5_ExhaustedNoDataset == [](C5_State) /\ [][C5_Step]_vars

C5_Witness ==
    /\ pc = "run_render_chart" /\ spc = "none" /\ AllRejected /\ Len(val_log) = 3
    /\ heap[state["data_question"]].dataset = "[]"

\* number of completed executions of one orchestrator node
Count(node) == Cardinality({i \in DOMAIN stage_log : stage_log[i] = node})

\* C6: once the work queue is fixed the run ends with current_idx = N after
\* exactly N executions of each of pick_next, run_extractor, run_render_chart
\* and accumulate, whatever happened to the individual questions.
C6_LoopTermination ==
    (pc \in {"done", "failed"} /\ "questions" \in DOMAIN state) =>
        LET n == Len(state["questions"])
        IN /\ state["current_idx"] = n
           /\ Count("pick_next") = n /\ Count("run_extractor") = n
           /\ Count("run_render_chart") = n /\ Count("accumulate") = n

\* what the nested graph of one kind returned for a question
Returned(graph, dq) == CHOOSE e \in Range(q_log) : e.graph = graph /\ e.dq = dq

\* C7: a run in which some question exhausted its SQL retries still ends with
\* every question processed, in order, after both of its nested graphs ran;
\* each question whose SQL and chart graphs both ended valid carries the
\* dataset of its own frame, a chart as JSON text and a narrative, namely
\* those its own graphs returned; and no step changes a work item other than
\* the current one, nor the current one outside the two attaching nodes.
C7_State ==
    (/\ pc = "done" /\ "questions" \in DOMAIN state
     /\ \E e \in Range(q_log) : e.graph = "sql" /\ ~e.is_valid) =>
        /\ state["processed_questions"] = state["questions"]
        /\ \A i \in DOMAIN state["questions"] :
              LET dq == state["questions"][i]
              IN /\ q_log[2 * i - 1].graph = "sql" /\ q_log[2 * i - 1].dq = dq
                 /\ q_log[2 * i].graph = "chart" /\ q_log[2 * i].dq = dq
                 /\ (q_log[2 * i - 1].is_valid /\ q_log[2 * i].is_valid) =>
                       /\ heap[dq].dataset =
                             (IF q_log[2 * i - 1].df = "df_rows" THEN "json_rows" ELSE "[]")
                       /\ heap[dq].chart_figure_json = StrV("fig_valid")
                       /\ heap[dq].narrative \in Narratives \cup {""}

C7_Step ==
    pc # "run_parsing" =>
        /\ DOMAIN heap' = DOMAIN heap
        /\ \A id \in DOMAIN heap :
              id # Get(state, "data_question", 0) => heap'[id] = heap[id]
        /\ \A id \in DOMAIN heap :
              LET old == heap[id]
                  new == heap'[id]
              IN /\ new.dataset # old.dataset => (pc = "run_extractor" /\ spc = "END")
                 /\ (new.chart_figure_json # old.chart_figure_json \/ new.narrative # old.narrative)
                        => (pc = "run_render_chart" /\ spc = "END")
                 /\ (pc = "run_extractor" /\ spc = "END" /\ id = state["data_question"]) =>
                        new.dataset = (IF Get(sub, "df", None) = "df_rows" THEN "json_rows" ELSE "[]")
                 /\ (pc = "run_render_chart" /\ spc = "END" /\ id = state["data_question"]
                     /\ sub["is_valid"]) =>
                        /\ new.chart_figure_json = StrV(sub["plotly_fig_json"].v)
                        /\ new.narrative = sub["narrative"]

C7_Isolation == [](C7_State) /\ [][C7_Step]_vars

C7_Witness ==
    /\ pc = "done" /\ "questions" \in DOMAIN state /\ Len(state["questions"]) = 2
    /\ ~Returned("sql", 1).is_valid
    /\ Returned("sql", 2).is_valid /\ Returned("chart", 2).is_valid
    /\ heap[1].dataset = "[]" /\ heap[2].dataset = "json_rows"
    /\ heap[2].narrative = "n1"

\* C8: when parse validation yields is_valid = false (as it does for every
\* answer without items) the run is over after run_parsing: no other node
\* has run, no generation or execution was invoked, no queue exists and
\* nothing was processed; the validation message is in the state.
C8_InvalidParseStops ==
    pc # "run_parsing" =>
        /\ state["parsed"] = <<>> => ~state["is_valid"]
        /\ ~state["is_valid"] =>
              /\ pc \in {"done", "rendered"}
              /\ stage_log = <<"run_parsing">>
              /\ gen_log = <<>> /\ val_log = <<>> /\ exec_log = <<>> /\ q_log = <<>>
              /\ Get(state, "processed_questions", <<>>) = <<>>
              /\ {"questions", "current_idx", "data_question"} \cap DOMAIN state = {}
              /\ state["validation_message"] # <<>>

C8_Witness ==
    /\ pc = "done" /\ ~state["is_valid"]
    /\ state["parsed"] = <<>>
    /\ state["validation_message"][1].kind = "no_data_question"

\* the names of one item are all registered
Registered(q) ==
    /\ \A i \in DOMAIN q.metrics : q.metrics[i] \in Registry.metrics
    /\ \A i \in DOMAIN q.dimensions : q.dimensions[i] \in Registry.dimensions

\* C9: validate_agent_output returns ok = true exactly when there is a
\* data-question item, every such item has a metric and a dimension, and
\* every metric and dimension name is registered; otherwise ok = false with
\* a message.
C9_ValidateIff ==
    pc = "validated" =>
        /\ vout.ok <=>
              /\ \E i \in DOMAIN vin : vin[i].kind = "data"
              /\ \A i \in DOMAIN vin : vin[i].kind = "data" =>
                    /\ Len(vin[i].metrics) >= 1 /\ Len(vin[i].dimensions) >= 1
                    /\ Registered(vin[i])
        /\ ~vout.ok => (vout.message # <<>> /\ \A k \in DOMAIN vout.message : vout.message[k].kind # "valid")

C9_Witness ==
    /\ pc = "validated" /\ vout.ok
    /\ Len(vin) = 2 /\ vin[1].metrics = <<"revenue">> /\ vin[2].dimensions = <<"product">>

\* the item lacks metrics or dimensions
Lacks(q) == q.metrics = <<>> \/ q.dimensions = <<>>

\* C10: when some item lacks metrics or dimensions the answer is ok = false
\* and the message has one line per such item, in item order, naming exactly
\* the fields that item lacks.
C10_MissingFields ==
    (pc = "validated" /\ \E i \in DOMAIN vin : Lacks(vin[i])) =>
        /\ ~vout.ok
        /\ Len(vout.message) = Cardinality({i \in DOMAIN vin : Lacks(vin[i])})
        /\ \A i \in DOMAIN vin : Lacks(vin[i]) =>
              \E k \in DOMAIN vout.message :
                  LET line == vout.message[k]
                  IN /\ line.kind = "missing"
                     /\ line.text = vin[i].original_text
                     /\ Range(line.fields) \subseteq {"metric", "dimension"}
                     /\ "metric" \in Range(line.fields) <=> vin[i].metrics = <<>>
                     /\ "dimension" \in Range(line.fields) <=> vin[i].dimensions = <<>>

C10_Witness ==
    /\ pc = "validated" /\ Len(vin) = 2
    /\ vin[1].metrics # <<>> /\ vin[1].dimensions = <<>>
    /\ vin[2].metrics = <<>> /\ vin[2].dimensions = <<>>
    /\ Len(vout.message) = 2 /\ vout.message[2].fields = <<"metric", "dimension">>

\* the item fails a check of validate_agent_output
FailsCheck(q) == q.kind = "data" /\ (Lacks(q) \/ ~Registered(q))

\* C11: every item that fails a check (missing metric, missing dimension,
\* unknown metric name, unknown dimension name) has its own line in the
\* returned message, also when different items fail different checks.
C11_ItemizedPerItem ==
    pc = "validated" =>
        \A i \in DOMAIN vin : FailsCheck(vin[i]) =>
            \E k \in DOMAIN vout.message : vout.message[k].text = vin[i].original_text

\* a call of the chart generation capability in the current invocation
\* returned text that is not JSON or that carries no plotly_figure
MalformedChartAnswer == \E k \in DOMAIN gen_log : gen_log[k].out = "absent"

\* C12: a malformed answer of the chart generation capability does not make
\* the run fail: the chart graph ends, and once run_render_chart has
\* completed the question carries no chart.
C12_MalformedDegrades ==
    MalformedChartAnswer =>
        /\ pc # "failed"
        /\ pc = "accumulate" => heap[state["data_question"]].chart_figure_json = NoneV

\* C13: once the query executor has been called for a question, whatever it
\* answered (rows, no rows, a connectivity or statement error), the run is
\* not aborted: the SQL graph ends and the run goes on to the chart graph.
C13_ExecutionFailureIsolated ==
    (SqlLogs /\ exec_log # <<>>) => pc # "failed"

\* C14: an exception raised by a stage takes the run to the except clause
\* and nowhere else: from the failure on no stage runs, no capability is
\* called again and the state and the work items are left as they were; the
\* handler logs the failure with the exception and writes one generic
\* notice, and the page holds nothing else: no question header, chart,
\* narrative or validation message; the handled run takes no further step.
C14_State ==
    pc = "run_failed" =>
        /\ ui.out = <<Element("error", 0, "Something went wrong. Check logs for details.", <<>>)>>
        /\ Last(ui.log) = LogEvent("run_failed", spc, 0, 0)
        /\ \A k \in DOMAIN ui.log :
              ui.log[k].event \in {"run_started", "progress", "run_failed"}

C14_Step ==
    /\ pc = "failed" =>
          /\ pc' = "run_failed"
          /\ <<state, heap, stage_log, gen_log, val_log, exec_log, q_log>>' =
                 <<state, heap, stage_log, gen_log, val_log, exec_log, q_log>>
    /\ pc # "run_failed"
    /\ pc' = "failed" => pc \in {"pick_next", "run_extractor", "run_render_chart"}

C14_TopLevelBoundary == [](C14_State) /\ [][C14_Step]_vars

C14_Witness ==
    /\ pc = "run_failed" /\ spc = "RuntimeError"
    /\ Len(Get(state, "processed_questions", <<>>)) = 1
    /\ heap[1].chart_figure_json = StrV("fig_valid")
    /\ Len(ui.out) = 1

\* rejected validations of the current invocation
Rejections == Cardinality({k \in DOMAIN val_log : ~val_log[k].is_valid})

\* C15: in every SQL and chart graph invocation validation_attempts starts
\* at 0 (the key is absent until the first rejection) and counts the
\* rejections of that invocation only, whatever happened to earlier
\* questions or in the other graph; the orchestrator state never holds the
\* key validation_attempts.
C15_AttemptsScoped ==
    /\ "validation_attempts" \notin DOMAIN state
    /\ InRetryLoop =>
          /\ Get(sub, "validation_attempts", 0) = Rejections
          /\ val_log = <<>> => "validation_attempts" \notin DOMAIN sub

C15_Witness ==
    /\ pc = "run_render_chart" /\ spc = "validate_charts"
    /\ state["current_idx"] = 1 /\ Len(q_log) = 3
    /\ \A k \in 1..3 : ~q_log[k].is_valid
    /\ val_log = <<>> /\ Get(sub, "validation_attempts", 0) = 0

\* the validator approved everything it was shown in both invocations
AlwaysApproved ==
    /\ \A k \in DOMAIN val_log : val_log[k].is_valid
    /\ \A k \in DOMAIN rep.val_log : rep.val_log[k].is_valid

\* in both invocations the generation capability answered the same input
\* with the same output, and so did the query executor
SameAnswers ==
    /\ \A j \in DOMAIN rep.gen_log : \A k \in DOMAIN gen_log :
          rep.gen_log[j].previous_error = gen_log[k].previous_error =>
              (rep.gen_log[j].out = gen_log[k].out /\ rep.gen_log[j].narrative = gen_log[k].narrative)
    /\ Get(rep.sub, "df", None) = Get(sub, "df", None)

\* C16: when a nested graph is invoked twice on the same input, the
\* validator approves and the capabilities answer alike, the second
\* invocation ends in the terminal state of the first, and each made one
\* generation call, one validation and no retry.
C16_Idempotent ==
    (/\ rep.runs = 1 /\ spc = "END" /\ AlwaysApproved /\ SameAnswers) =>
        /\ sub = rep.sub
        /\ Len(gen_log) = 1 /\ Len(rep.gen_log) = 1
        /\ Len(val_log) = 1 /\ Len(rep.val_log) = 1
        /\ Get(sub, "validation_attempts", 0) = 0

C16_Witness ==
    /\ rep.runs = 1 /\ spc = "END" /\ AlwaysApproved /\ SameAnswers
    /\ pc = "run_extractor" /\ sub["df"] = "df_rows" /\ rep.sub["sql"] = "sql_ok"

\* C17: once the queue exists, processed_questions is the queue's first
\* current_idx entries in queue order; between PickNext and Accumulate the
\* current work item is questions[current_idx] (0-based), and both nested
\* graphs work on that item; the queue is the parsed items in parse order and
\* never changes; when the loop has ended processed_questions is the queue.
C17_State ==
    (pc \notin {"run_parsing", "init_loop"} /\ "questions" \in DOMAIN state) =>
        LET questions == state["questions"]
            idx == state["current_idx"]
        IN /\ questions = state["parsed"]
           /\ \A i, j \in DOMAIN questions : i # j => questions[i] # questions[j]
           /\ idx \in 0..Len(questions)
           /\ state["processed_questions"] = SubSeq(questions, 1, idx)
           /\ pc \in {"run_extractor", "run_render_chart", "accumulate"} =>
                 state["data_question"] = questions[idx + 1]
           /\ (pc \in {"run_extractor", "run_render_chart"} /\ spc # "none") =>
                 sub["data_question"] = questions[idx + 1]
           /\ \A k \in DOMAIN q_log : q_log[k].dq = questions[(k + 1) \div 2]
           /\ pc \in {"done", "rendered"} => state["processed_questions"] = questions

C17_Step ==
    ("questions" \in DOMAIN state /\ pc # "run_parsing") =>
        /\ state'["questions"] = state["questions"]
        /\ state'["current_idx"] \in {state["current_idx"], state["current_idx"] + 1}
        /\ state'["current_idx"] # state["current_idx"] => pc = "accumulate"

C17_QueueOrder == [](C17_State) /\ [][C17_Step]_vars

C17_Witness ==
    /\ pc = "done" /\ "questions" \in DOMAIN state
    /\ state["processed_questions"] = <<1, 2>>
    /\ heap[1].original_text = "q1" /\ heap[2].original_text = "q2"
    /\ Len(q_log) = 4

\* sq is an initial part of tq
IsPrefix(sq, tq) == Len(sq) <= Len(tq) /\ sq = SubSeq(tq, 1, Len(sq))

\* the progress messages that may stand at position p (from 1) of a run
\* with n questions
ExpectedProgress(p, n) ==
    IF p = 1 THEN {[text |-> "Start processing user query...", i |-> 0, n |-> 0]}
    ELSE IF p = 2 THEN {[text |-> "Parsing completed.", i |-> 0, n |-> 0]}
    ELSE LET i == ((p - 3) \div 5) + 1
             r == (p - 3) % 5
         IN IF r = 0 THEN {[text |-> "Processing question", i |-> i, n |-> n]}
            ELSE IF r = 1 THEN {[text |-> "Extracting data for question", i |-> i, n |-> n]}
            ELSE IF r = 2 THEN {[text |-> "Data Extraction completed for question", i |-> i, n |-> 0]}
            ELSE IF r = 3 THEN {[text |-> "Rendering chart for question", i |-> i, n |-> 0]}
            ELSE {[text |-> "Chart rendered successfully.", i |-> 0, n |-> 0],
                  [text |-> "Chart rendering failed.", i |-> 0, n |-> 0]}

\* C18: no step removes or changes a progress message, and what the status
\* box shows only grows while the graph is streamed; the messages are, in
\* order, the start message, "Parsing completed." and, for question i =
\* 1..N, "Processing question i of N.", "Extracting data for question i of
\* N.", "Data Extraction completed for question i.", "Rendering chart for
\* question i..." and one of "Chart rendered successfully." / "Chart
\* rendering failed."; a valid run that has ended holds all 2 + 5N of them.
C18_State ==
    LET pm == state["progress_messages"]
        n == Len(Get(state, "questions", <<>>))
    IN /\ \A p \in DOMAIN pm : pm[p] \in ExpectedProgress(p, n)
       /\ pc = "run_parsing" => Len(pm) = 1
       /\ pc \in {"init_loop", "pick_next"} => Len(pm) = 2 + 5 * Get(state, "current_idx", 0)
       /\ (pc \in {"done", "rendered"} /\ state["is_valid"]) => Len(pm) = 2 + 5 * n
       /\ pc \notin {"rendered", "failed", "run_failed"} => ui.status_box = pm

C18_Step ==
    /\ IsPrefix(state["progress_messages"], state'["progress_messages"])
    /\ pc # "done" => IsPrefix(ui.status_box, ui'.status_box)

C18_ProgressOrder == [](C18_State) /\ [][C18_Step]_vars

C18_Witness ==
    /\ pc = "done" /\ state["is_valid"] /\ Len(state["questions"]) = 2
    /\ Len(state["progress_messages"]) = 12
    /\ state["progress_messages"][7].text = "Chart rendering failed."
    /\ state["progress_messages"][12].text = "Chart rendered successfully."

\* the statement contains a mutating keyword as a word, in any case
Mutating(sql) == \E i \in DOMAIN sql : \E k \in DOMAIN DISALLOWED : Lower(sql[i]) = DISALLOWED[k]

\* C19: SQLValidationService.validate never reports a statement that
\* contains a mutating keyword valid, whatever the MCP setting and whichever
\* backend validates.
C19_ReadOnlyEnforced ==
    (pc = "sql_validated" /\ Mutating(svc.sql)) =>
        ~(svc.result.kind = "return" /\ svc.result.is_valid)

\* the statements sql.query sent to the database for the request
Queried == {k \in DOMAIN svc.response.db : svc.response.db[k].stmt = "SELECT"}

\* C20 as claimed: whatever limit the request asks for (absent, zero or any
\* integer), the LIMIT sql.query applies is at least 1 and at most the
\* server's maximum row count.
C20_LimitAnyInteger ==
    pc = "responded" =>
        \A k \in Queried :
            svc.response.db[k].limit >= 1 /\ svc.response.db[k].limit <= svc.max_rows

\* C20 amended: the LIMIT sql.query applies is never above the server's
\* maximum row count; it is the maximum when the requested limit is absent,
\* zero or above the maximum, and the requested limit otherwise, so it is at
\* least 1 unless the requested limit is negative.
C20_LimitBounded ==
    pc = "responded" =>
        \A k \in Queried :
            LET limit == svc.response.db[k].limit
            IN /\ limit <= svc.max_rows
               /\ (svc.limit.t = "NoneType" \/ svc.limit.v = 0 \/ svc.limit.v > svc.max_rows)
                     => limit = svc.max_rows
               /\ (svc.limit.t = "int" /\ svc.limit.v # 0 /\ svc.limit.v <= svc.max_rows)
                     => limit = svc.limit.v
               /\ (svc.limit.t = "NoneType" \/ svc.limit.v >= 0) => limit >= 1

C20_Witness ==
    /\ pc = "responded" /\ svc.tool = "sql.query"
    /\ svc.limit.t = "int" /\ svc.limit.v = 0 /\ svc.max_rows = 2
    /\ svc.response.db = <<[stmt |-> "SELECT", sql |-> <<"select">>, limit |-> 2]>>

\* C21: for every setting of MCP_ENABLED and every outcome of the connection
\* test run_query executes the statement through sql.query or through
\* SQLAlchemy; it goes through sql.query only when MCP_ENABLED is "1", and it
\* never fails before reaching a backend because MCP is off or there is no
\* client.
C21_QueryFallback ==
    pc = "query_done" =>
        /\ svc.result.path \in {"mcp", "sqlalchemy"}
        /\ svc.result.path = "mcp" => svc.MCP_ENABLED = "1"
        /\ svc.MCP_ENABLED # "1" => svc.result.path = "sqlalchemy"

\* the run has ended and the k-th processed question is the one whose SQL
\* (graph = "sql") or chart (graph = "chart") graph ended invalid, which it
\* does only after MaxAttempts rejections
Exhausted(graph, k) ==
    /\ pc \in {"done", "rendered"} /\ "processed_questions" \in DOMAIN state
    /\ k \in DOMAIN state["processed_questions"]
    /\ \E e \in Range(q_log) :
          e.graph = graph /\ e.dq = state["processed_questions"][k] /\ ~e.is_valid

\* the k-th processed work item of the ended run
Processed(k) == heap[state["processed_questions"][k]]

\* C22 as claimed: in the final list of processed work items a question
\* whose SQL graph exhausted its retries has dataset None, and a question
\* whose chart graph exhausted its retries has chart_figure_json None.
C22_NullOnExhaustion ==
    \A k \in 1..MaxQuestions :
        /\ Exhausted("sql", k) => Processed(k).dataset = None
        /\ Exhausted("chart", k) => Processed(k).chart_figure_json = NoneV

\* C22 amended: in the final list of processed work items a question whose
\* SQL graph exhausted its retries carries the serialized empty dataset "[]"
\* (never None), and a question whose chart graph exhausted its retries has
\* chart_figure_json None.
C22_EmptyOnExhaustion ==
    \A k \in 1..MaxQuestions :
        /\ Exhausted("sql", k) => Processed(k).dataset = "[]"
        /\ Exhausted("chart", k) => Processed(k).chart_figure_json = NoneV

C22_Witness ==
    /\ Exhausted("sql", 1) /\ ~Exhausted("chart", 1)
    /\ Exhausted("chart", 2) /\ ~Exhausted("sql", 2)
    /\ Processed(1).dataset = "[]" /\ Processed(1).chart_figure_json = StrV("fig_valid")
    /\ Processed(2).dataset = "json_rows" /\ Processed(2).chart_figure_json = NoneV

\* validation_attempts of the nested graph state st, 0 while the key is absent
Attempts(st) == Get(st, "validation_attempts", 0)

\* C23: during a SQL or chart graph invocation validation_attempts is the
\* number of validations of that invocation that reported invalid; a
\* validate node adds exactly 1 when it reports invalid and nothing when it
\* reports valid, and the generate nodes and extract_data_node leave the
\* counter as it is.
C23_State == InRetryLoop => Attempts(sub) = Rejections

C23_Step ==
    (InRetryLoop /\ spc # "END") =>
        /\ (spc \in {"validate_sql_node", "validate_charts"} /\ pc' # "failed") =>
              /\ Len(val_log') = Len(val_log) + 1
              /\ Attempts(sub') = Attempts(sub) + (IF Last(val_log').is_valid THEN 0 ELSE 1)
              /\ sub'["is_valid"] = Last(val_log').is_valid
        /\ spc \in {"generate_sql_node", "render_charts", "extract_data_node"} =>
              /\ Attempts(sub') = Attempts(sub)
              /\ val_log' = val_log
        /\ pc' = "failed" => sub' = sub

C23_AttemptsCountFailures == [](C23_State) /\ [][C23_Step]_vars

C23_Witness ==
    /\ pc = "run_extractor" /\ spc = "extract_data_node"
    /\ Len(val_log) = 3 /\ Len(gen_log) = 3 /\ val_log[3].is_valid
    /\ sub["validation_attempts"] = 2

\* the data-question items of a parse result, in parse order
DataItems(parsed) == SelectSeq(parsed, LAMBDA q : heap[q].kind = "data")

\* C24: init_loop sets questions to the data-question items of the parse
\* result in parse order, current_idx to 0 and processed_questions to the
\* empty list, whatever the state held, and changes nothing else but
\* analysis_requests; the queue appears with init_loop and not before, and
\* from then on no step adds to, removes from or reorders questions, up to
\* the end of the run.
C24_State ==
    /\ "questions" \in DOMAIN state <=> "init_loop" \in Range(stage_log)
    /\ "questions" \in DOMAIN state =>
          /\ state["questions"] = DataItems(state["parsed"])
          /\ Len(state["questions"]) = Len(heap)
          /\ Count("init_loop") = 1
    /\ (pc = "pick_next" /\ Last(stage_log) = "init_loop") =>
          (state["current_idx"] = 0 /\ state["processed_questions"] = <<>>)

C24_Step ==
    /\ pc = "init_loop" =>
          /\ state'["questions"] = DataItems(state["parsed"])
          /\ state'["current_idx"] = 0
          /\ state'["processed_questions"] = <<>>
          /\ \A k \in DOMAIN state : state'[k] = state[k]
          /\ DOMAIN state' = DOMAIN state
                \cup {"questions", "analysis_requests", "current_idx", "processed_questions"}
    /\ "questions" \in DOMAIN state =>
          /\ "questions" \in DOMAIN state'
          /\ state'["questions"] = state["questions"]
          /\ state'["parsed"] = state["parsed"]

C24_QueueFixed == [](C24_State) /\ [][C24_Step]_vars

C24_Witness ==
    /\ pc = "rendered" /\ Count("init_loop") = 1 /\ Count("accumulate") = 2
    /\ state["questions"] = <<1, 2>> /\ state["parsed"] = <<1, 2>>
    /\ state["analysis_requests"] = <<>> /\ state["current_idx"] = 2

\* C25: once init_loop has run, after every node Len(processed_questions) =
\* current_idx and 0 <= current_idx <= Len(questions), also in a run that
\* fails; only accumulate changes either key, and it appends the current
\* work item, which is questions[current_idx], and adds exactly 1 to
\* current_idx.
C25_State ==
    "questions" \in DOMAIN state =>
        /\ Len(state["processed_questions"]) = state["current_idx"]
        /\ 0 <= state["current_idx"] /\ state["current_idx"] <= Len(state["questions"])

C25_Step ==
    "questions" \in DOMAIN state =>
        /\ pc # "accumulate" =>
              /\ state'["processed_questions"] = state["processed_questions"]
              /\ state'["current_idx"] = state["current_idx"]
        /\ pc = "accumulate" =>
              /\ state'["processed_questions"] =
                     Append(state["processed_questions"], state["data_question"])
              /\ state["data_question"] = state["questions"][state["current_idx"] + 1]
              /\ state'["current_idx"] = state["current_idx"] + 1

C25_CursorMatchesProcessed == [](C25_State) /\ [][C25_Step]_vars

C25_Witness ==
    /\ pc = "pick_next" /\ Last(stage_log) = "accumulate"
    /\ Len(state["questions"]) = 2
    /\ state["current_idx"] = 1 /\ state["processed_questions"] = <<1>>

\* the chart graph is being invoked for the current question
InChartGraph == pc = "run_render_chart" /\ spc # "none"

\* entries of q_log for one question and one graph
Entries(graph, dq) == {k \in DOMAIN q_log : q_log[k].graph = graph /\ q_log[k].dq = dq}

\* C26: for every question the chart graph is invoked once and not again,
\* right after the SQL graph of that question has returned, whether it ended
\* valid or exhausted its retries; after exhausted retries chart generation
\* is still called, and the data set it is given is the empty one ("[]"); a
\* run that ends has invoked the chart graph exactly once per question.
C26_State ==
    /\ \A k \in DOMAIN q_log :
          /\ q_log[k].graph = (IF k % 2 = 1 THEN "sql" ELSE "chart")
          /\ k % 2 = 0 => q_log[k].dq = q_log[k - 1].dq
          /\ Cardinality(Entries(q_log[k].graph, q_log[k].dq)) = 1
    /\ InChartGraph =>
          /\ Len(q_log) % 2 = 1
          /\ Last(q_log).dq = sub["data_question"]
          /\ \A j \in DOMAIN gen_log :
                gen_log[j].dataset = (IF Last(q_log).df = "df_rows" THEN "json_rows" ELSE "[]")
          /\ ~Last(q_log).is_valid =>
                \A j \in DOMAIN gen_log : gen_log[j].dataset = "[]"
    /\ pc = "accumulate" =>
          (Len(q_log) % 2 = 0 /\ Last(q_log).dq = state["data_question"])
    /\ (pc \in {"done", "rendered"} /\ "questions" \in DOMAIN state) =>
          \A i \in DOMAIN state["questions"] :
              /\ Cardinality(Entries("sql", state["questions"][i])) = 1
              /\ Cardinality(Entries("chart", state["questions"][i])) = 1

C26_Step ==
    /\ (pc = "run_extractor" /\ spc = "END") => pc' = "run_render_chart"
    /\ (pc = "run_render_chart" /\ spc = "none") => (pc' = pc /\ spc' = "render_charts")
    /\ pc' = "accumulate" => (pc = "run_render_chart" /\ spc = "END")
    /\ (pc = "run_render_chart" /\ spc = "render_charts" /\ heap[sub["data_question"]].chart_hint) =>
          Len(gen_log') = Len(gen_log) + 1

C26_ChartAfterSql == [](C26_State) /\ [][C26_Step]_vars

C26_Witness ==
    /\ pc = "accumulate" /\ Len(q_log) = 2
    /\ ~q_log[1].is_valid /\ q_log[1].df = None /\ q_log[2].is_valid
    /\ Len(gen_log) = 1 /\ gen_log[1].dataset = "[]" /\ gen_log[1].out = "fig_valid"

\* the work items reachable from an orchestrator state
Reachable(st) ==
    Range(Get(st, "parsed", <<>>)) \cup Range(Get(st, "questions", <<>>))
    \cup Range(Get(st, "processed_questions", <<>>))
    \cup (IF "data_question" \in DOMAIN st THEN {st["data_question"]} ELSE {})

\* C27: an orchestrator node leaves every work item reachable from the
\* state it received with the content it had before the call; what it
\* changes is only in the update it returns.
C27_Step ==
    (pc \notin {"run_parsing", "done", "failed"} /\ pc' \notin {pc, "failed"}) =>
        \A id \in Reachable(state) : heap'[id] = heap[id]

C27_NoInPlaceMutation == [][C27_Step]_vars

\* C28: in one run the parse capability is called once and then the parse
\* validator once, and neither again: when run_parsing has completed, and
\* from then to the end of the run, the calls are exactly one parse followed
\* by one validation, also when the validator reported the result invalid,
\* in which case the run ends.
C28_State ==
    /\ parse_log \in {<<>>, <<"parse">>, <<"parse", "validate_agent_output">>}
    /\ (pc # "run_parsing" \/ spc = "END") => parse_log = <<"parse", "validate_agent_output">>
    /\ parse_log = <<"parse">> => (pc = "run_parsing" /\ spc = "parser_validation")
    /\ parse_log = <<>> => (pc = "run_parsing" /\ spc \in {"none", "parse"})

C28_Step ==
    /\ (pc # "run_parsing" \/ spc = "END") => parse_log' = parse_log
    /\ (pc = "run_parsing" /\ spc = "END" /\ ~sub["is_valid"]) => pc' = "done"

C28_SinglePassParse == [](C28_State) /\ [][C28_Step]_vars

C28_Witness ==
    /\ pc = "rendered" /\ ~state["is_valid"]
    /\ parse_log = <<"parse", "validate_agent_output">>
    /\ Len(state["parsed"]) = 2 /\ state["validation_message"][1].kind = "unknown"

\* the connection test of the call reports the tool server available
ConnectionAvailable == test_connection(svc.server_up, svc.pg)[1]

\* what the local asyncpg validator answers for the call
LocalAnswer ==
    IF ~svc.uri_set THEN [kind |-> "raise", is_valid |-> FALSE, error |-> "RuntimeError"]
    ELSE validate_sql(svc.sql, svc.pg)

\* C29: SQLValidationService.validate answers with what sql.validate says
\* only when MCP is enabled and the connection test reports the connection
\* available; when the test reports a failure, MCP is disabled or there is no
\* client, the answer is the one of the local asyncpg validator.
C29_FallbackOnFailedTest ==
    pc = "sql_validated" =>
        /\ (svc.MCP_ENABLED = "1" /\ ConnectionAvailable) =>
              LET r == mcp_validate(svc.sql, svc.server_up, svc.pg, 1)
              IN svc.result.kind = "return" /\ svc.result.is_valid = r[1]
        /\ ~(svc.MCP_ENABLED = "1" /\ ConnectionAvailable) => svc.result = LocalAnswer

\* C30: on one connection every line received has its own response line, in
\* the order of the lines, and each response is ok: true or ok: false with
\* an error; text that is not JSON is answered "invalid json" and a request
\* for an unknown tool "unknown tool"; the server never closes the
\* connection because of a line.
C30_OneResponsePerLine ==
    /\ pc # "aborted"
    /\ Len(svc.sent) = Len(svc.received)
    /\ \A k \in DOMAIN svc.sent :
          /\ svc.sent[k].ok \/ svc.sent[k].error # ""
          /\ svc.received[k].kind = "text" =>
                (~svc.sent[k].ok /\ svc.sent[k].error = "invalid json")
          /\ (svc.received[k].kind = "object" /\ svc.received[k].payload.tool = "other") =>
                (~svc.sent[k].ok /\ svc.sent[k].error = "unknown tool")

\* the statement contains a disallowed keyword, in any case and also as a
\* part of a longer word
ContainsKeyword(sql) ==
    \E i \in DOMAIN sql : \E k \in DOMAIN DISALLOWED : InWord(DISALLOWED[k], sql[i])

\* C31: the tool server sends no statement with a disallowed keyword to the
\* database: for such a query sql.validate answers valid = false and
\* sql.query answers no rows and an error, and neither EXPLAIN nor the query
\* is run; a query that is empty or not a string is answered "empty query"
\* and nothing is sent to the database either.
C31_KeywordsNeverSent ==
    pc = "responded" =>
        LET r == svc.response
            isText == svc.query.t = "str" /\ svc.query.v # <<>>
        IN /\ \A k \in DOMAIN r.db :
                 r.db[k].stmt \in {"EXPLAIN", "SELECT"} => ~ContainsKeyword(r.db[k].sql)
           /\ (svc.tool \in {"sql.validate", "sql.query"} /\ isText /\ ContainsKeyword(svc.query.v)) =>
                 /\ r.db = <<>>
                 /\ (r.sent /\ svc.tool = "sql.validate") =>
                       (r.ok /\ ~r.valid /\ r.message = "disallowed statement")
                 /\ (r.sent /\ svc.tool = "sql.query") =>
                       (r.rows = "empty" /\ r.error = "disallowed statement")
           /\ (svc.tool \in {"sql.validate", "sql.query"} /\ ~isText) =>
                 /\ r.db = <<>>
                 /\ r.sent => (~r.ok /\ r.error = "empty query")

C31_Witness ==
    /\ pc = "responded" /\ svc.tool = "sql.query" /\ svc.pg = "accepts"
    /\ svc.query = StrV(<<"select", "updated_at">>)
    /\ svc.response.sent /\ svc.response.rows = "empty" /\ svc.response.db = <<>>

\* the call of the client meets one of the failures: the connection attempt
\* times out, is refused or fails otherwise, the send or the read fails, no
\* line comes back, the line is not a JSON object, or it says ok: false
CallFailure ==
    \/ svc.connect # "ok"
    \/ svc.send # "ok"
    \/ svc.read # "line"
    \/ svc.line.kind # "object"
    \/ ~svc.line.resp.ok

C33_ConnectionReleased ==
    /\ svc.opened <= 1
    /\ pc = "returned" => svc.conn # "open"

\* the canonical keys of the registry entries that the word matches, by the
\* key itself or by one of its synonyms, without regard to case
MatchingKeys(word, registry) ==
    {registry.aliases[i].canon : i \in {j \in DOMAIN registry.aliases :
        \/ Lower(word) = Lower(registry.aliases[j].canon)
        \/ \E sy \in registry.aliases[j].syns : Lower(word) = Lower(sy)}}

\* C34: alias_to_canonical returns the canonical key whenever the word matches
\* a key or a synonym of the alias registry, in whatever order the entries
\* stand and whether or not the word is a metric or dimension name; it
\* returns the word itself only when nothing matches; a second application
\* changes nothing.
C34_CanonicalWhenMatched ==
    /\ pc \in {"canonicalized", "canonicalized_twice"} =>
          IF MatchingKeys(svc.word, svc.registry) # {}
          THEN svc.once \in MatchingKeys(svc.word, svc.registry)
          ELSE svc.once = svc.word
    /\ pc = "canonicalized_twice" => svc.twice = svc.once

\* the result of parse validation for the items the orchestrator state holds
ParseValidation ==
    validate_agent_output([i \in DOMAIN state["parsed"] |-> heap[state["parsed"][i]]])

C35_State ==
    /\ ("is_valid" \in DOMAIN state) = (stage_log # <<>>)
    /\ ("validation_message" \in DOMAIN state) = (stage_log # <<>>)
    /\ stage_log # <<>> =>
          /\ state["is_valid"] = ParseValidation.ok
          /\ state["validation_message"] = ParseValidation.message

C35_Step ==
    /\ (stage_log = <<>> /\ stage_log' # <<>>) =>
          /\ stage_log' = <<"run_parsing">>
          /\ state'["is_valid"] = sub["is_valid"]
          /\ state'["validation_message"] = sub["validation_message"]
    /\ stage_log # <<>> =>
          /\ state'["is_valid"] = state["is_valid"]
          /\ state'["validation_message"] = state["validation_message"]

\* C35: the orchestrator's is_valid and validation_message are written by
\* RunParsing, from the result of parse validation, and by no later stage:
\* they stay what parse validation said until the run ends, whatever the
\* validations inside the SQL and chart graphs said.
C35_ValidityFromParsingOnly == [](C35_State) /\ [][C35_Step]_vars

\* the run ended with is_valid true although the SQL validation and the
\* chart validation of a question had failed
C35_Witness ==
    /\ pc = "rendered" /\ state["is_valid"]
    /\ \E i \in DOMAIN q_log : q_log[i].graph = "sql" /\ ~q_log[i].is_valid
    /\ \E i \in DOMAIN q_log : q_log[i].graph = "chart" /\ ~q_log[i].is_valid

C36_State ==
    /\ pc = "init_loop" =>
          \E i \in DOMAIN state["parsed"] : heap[state["parsed"][i]].kind = "data"
    /\ pc = "pick_next" =>
          (0 <= state["current_idx"] /\ state["current_idx"] < Len(state["questions"]))
    /\ ~(pc = "failed" /\ spc = "IndexError")

C36_Step ==
    /\ pc = "init_loop" => (pc' = "pick_next" /\ state'["questions"] # <<>>)
    /\ pc = "pick_next" =>
          /\ pc' = "run_extractor"
          /\ state'["data_question"] = state["questions"][state["current_idx"] + 1]
    /\ (pc = "accumulate" /\ pc' = "pick_next") =>
          state'["current_idx"] < Len(state'["questions"])

\* C36: PickNext only runs with 0 <= current_idx < len(questions): InitLoop
\* is reached only with at least one data question and leaves a non-empty
\* queue, Accumulate goes back to PickNext only while the cursor is inside
\* the queue, and questions[current_idx] never raises IndexError.
C36_CursorInRange == [](C36_State) /\ [][C36_Step]_vars

\* PickNext was entered again after Accumulate and picked the second question
C36_Witness ==
    /\ pc = "run_extractor" /\ spc = "none"
    /\ Last(stage_log) = "pick_next"
    /\ state["current_idx"] = 1 /\ Len(state["questions"]) = 2
    /\ state["data_question"] = state["questions"][2]

\* C37: for every interleaving of the handlers the server has at most one
\* call of create_pool that was not a failed one, at most one pool is ever
\* created, and all requests are run on the same pool.
C37_OnePool ==
    /\ svc.calls - svc.failed <= 1
    /\ svc.created <= 1
    /\ Cardinality(svc.used) <= 1

====
